---- MODULE Spec2Model ----
(***************************************************************************)
(* A model of gourcers: the selection rule engine (include.rs, ignore.rs)  *)
(* and the run of main.rs that parses the rules, lists the repositories,   *)
(* filters them and hands the survivors to the later stages; then the      *)
(* stage functions that drive child processes (qsv.rs, gource.rs), step by *)
(* step.                                                                   *)
(*                                                                         *)
(* Text is modelled as a sequence of one-character strings, so that        *)
(* splitting, trimming and prefix tests are computed character by          *)
(* character as the Rust code computes them.                               *)
(***************************************************************************)
EXTENDS Integers, Sequences, FiniteSets, TLC

VARIABLES
    pc,        \* position of main: the stage that runs next
    cli,       \* the parsed command line (Cli): include_file, include, skip_clone
    catalog,   \* what the GitHub API will answer to list_repos
    cx,        \* Context built by Context::from_cli (includes, skip_clone)
    repos,     \* the `repos` vector of main
    idx,       \* how many entries of `repos` the running loop has handled
    dirs,      \* the working copies present under repos_dir (path-friendly names)
    git,       \* the git invocations issued so far, in order
    logs,      \* the per-repository gource logs written (path-friendly names)
    result,    \* what main returned (or Running)
    call,      \* rule-engine function under call, with its argument
    ret,       \* what that call returned (or Pending)
    fs,        \* the files of the merge stage: the gource logs and the sorted log
    stage      \* the stage function under execution: its position and its locals

vars == <<pc, cli, catalog, cx, repos, idx, dirs, git, logs, result, call, ret, fs, stage>>

(***************************************************************************)
(* Bounds of the model.                                                    *)
(***************************************************************************)
MaxLines == 3     \* lines of a rule text handed to a parser
MaxEntries == 3   \* entries of a RuleSet handed to RuleSet::test
MaxRepos == 2     \* repositories the catalog holds
MaxFetches == 2   \* calls of fetch_repo made for one repository, one after the other
MaxFrames == 2    \* frames gource has to write to its stdout
MaxDiag == 2      \* pieces of diagnostic output a child has to write to its stderr
PipeCap == 1      \* pieces a pipe holds before a write to it blocks
MaxName == 2      \* characters of a login and of a name handed to the path functions
MaxPath == 3      \* characters of the path of a line gource writes
MaxLogLines == 3  \* lines the gource logs handed to the merge stage hold, in all

(***************************************************************************)
(* Strings.                                                                *)
(***************************************************************************)
None == [tag |-> "None"]
Some(v) == [tag |-> "Some", v |-> v]

S_star == <<"*">>
S_owner == <<"o", "w", "n", "e", "r">>
S_name == <<"n", "a", "m", "e">>
S_full_name == <<"f", "u", "l", "l", "_", "n", "a", "m", "e">>
S_is_fork == <<"i", "s", "_", "f", "o", "r", "k">>
S_public == <<"p", "u", "b", "l", "i", "c">>
S_true == <<"t", "r", "u", "e">>
S_false == <<"f", "a", "l", "s", "e">>

\* bool::to_string
bool_to_string(b) == IF b THEN S_true ELSE S_false

\* char::is_whitespace, over the characters the model's texts use
is_whitespace(c) == c \in {" ", "\t", "\n", "\r"}

\* str::starts_with(char)
starts_with(s, c) == Len(s) > 0 /\ s[1] = c

RECURSIVE trim_start(_)
trim_start(s) ==
    IF s /= <<>> /\ is_whitespace(Head(s)) THEN trim_start(Tail(s)) ELSE s

RECURSIVE trim_end(_)
trim_end(s) ==
    IF s /= <<>> /\ is_whitespace(s[Len(s)])
    THEN trim_end(SubSeq(s, 1, Len(s) - 1))
    ELSE s

\* str::trim
trim(s) == trim_end(trim_start(s))

\* Position of the first occurrence of character c in s, 0 when there is none.
RECURSIVE find_from(_, _, _)
find_from(s, c, i) ==
    IF i > Len(s) THEN 0
    ELSE IF s[i] = c THEN i
    ELSE find_from(s, c, i + 1)

find(s, c) == find_from(s, c, 1)

\* str::lines: split after every "\n"; drop the "\n" and a "\r" right
\* before it; a text that ends in "\n" has no empty last line.
RECURSIVE lines(_)
lines(s) ==
    IF s = <<>> THEN <<>>
    ELSE LET n == find(s, "\n") IN
         IF n = 0 THEN <<s>>
         ELSE LET l == SubSeq(s, 1, n - 1)
                  line == IF l /= <<>> /\ l[Len(l)] = "\r"
                          THEN SubSeq(l, 1, Len(l) - 1)
                          ELSE l
              IN <<line>> \o lines(SubSeq(s, n + 1, Len(s)))

\* Position of the last occurrence of character c in s, 0 when there is none.
RECURSIVE rfind_from(_, _, _)
rfind_from(s, c, i) ==
    IF i < 1 THEN 0
    ELSE IF s[i] = c THEN i
    ELSE rfind_from(s, c, i - 1)

\* str::rsplitn(2, ':') read front to back: the split is at the last ':'.
splitn2_at_last(line) ==
    LET n == rfind_from(line, ":", Len(line)) IN
    IF n = 0 THEN <<line>>
    ELSE <<SubSeq(line, 1, n - 1), SubSeq(line, n + 1, Len(line))>>

\* str::splitn(2, ':'): the part before the first ':' and, when there is a
\* ':', everything after it.
splitn2(line) ==
    LET n == find(line, ":") IN
    IF n = 0 THEN <<line>>
    ELSE <<SubSeq(line, 1, n - 1), SubSeq(line, n + 1, Len(line))>>

\* [String]::join("\n")
RECURSIVE join(_)
join(ls) ==
    IF ls = <<>> THEN <<>>
    ELSE IF Len(ls) = 1 THEN ls[1]
    ELSE ls[1] \o <<"\n">> \o join(Tail(ls))

(***************************************************************************)
(* include.rs: entries.                                                    *)
(***************************************************************************)
Selector == {"All", "Owner", "Name", "FullName", "IsFork", "Public"}

ErrorKind(kind, payload) == [tag |-> "Err", kind |-> kind, payload |-> payload]
Ok(v) == [tag |-> "Ok", v |-> v]

Entry_new(selector, value) == [selector |-> selector, value |-> value]

\* The selector a token names, None for an unrecognized token.
selector_of(part) ==
    IF part = S_star THEN Some("All")
    ELSE IF part = S_owner THEN Some("Owner")
    ELSE IF part = S_name THEN Some("Name")
    ELSE IF part = S_full_name THEN Some("FullName")
    ELSE IF part = S_is_fork THEN Some("IsFork")
    ELSE IF part = S_public THEN Some("Public")
    ELSE None

\* The value checks without the test for an empty value.
Entry_value_allow_empty(selector, parts, line) ==
    IF Len(parts) < 2
    THEN ErrorKind("MissingValue", line)
    ELSE IF selector \in {"IsFork", "Public"} /\ parts[2] /= S_true /\ parts[2] /= S_false
    THEN ErrorKind("InvalidBool", parts[2])
    ELSE Ok(Entry_new(selector, parts[2]))

\* The value checks without the test of boolean values.
Entry_value_any_bool(selector, parts, line) ==
    IF Len(parts) < 2 \/ parts[2] = <<>>
    THEN ErrorKind("MissingValue", line)
    ELSE Ok(Entry_new(selector, parts[2]))

\* The value checks of Entry::from_str, once the selector is known.
Entry_value(selector, parts, line) ==
    IF Len(parts) < 2 \/ parts[2] = <<>>
    THEN ErrorKind("MissingValue", line)
    ELSE IF selector \in {"IsFork", "Public"} /\ parts[2] /= S_true /\ parts[2] /= S_false
    THEN ErrorKind("InvalidBool", parts[2])
    ELSE Ok(Entry_new(selector, parts[2]))

\* Entry::from_str looking for the value before it looks at the selector.
Entry_from_str_value_first(line) ==
    LET parts == splitn2(line)
        selector == selector_of(parts[1])
    IN IF Len(parts) < 2 \/ parts[2] = <<>>
       THEN ErrorKind("MissingValue", line)
       ELSE IF selector.tag = "None"
       THEN ErrorKind("InvalidSelector", parts[1])
       ELSE Entry_value(selector.v, parts, line)

\* <Entry as FromStr>::from_str
Entry_from_str(line) ==
    LET parts == splitn2(line)
        selector == selector_of(parts[1])
    IN IF selector.tag = "None"
       THEN ErrorKind("InvalidSelector", parts[1])
       ELSE Entry_value(selector.v, parts, line)

(***************************************************************************)
(* github.rs: repositories.  ssh_url plays no part in selection and is     *)
(* left out of the record.                                                 *)
(***************************************************************************)
Repo(owner, name, full_name, fork, private) ==
    [name |-> name, full_name |-> full_name, owner |-> [login |-> owner],
     fork |-> fork, private |-> private]

\* Repo::full_name without the unwrap_or_else: empty when the record has
\* no full_name.
Repo_full_name_of_record(repo) ==
    IF repo.full_name.tag = "Some" THEN repo.full_name.v ELSE <<>>

\* Repo::full_name
Repo_full_name(repo) ==
    IF repo.full_name.tag = "Some" THEN repo.full_name.v
    ELSE repo.owner.login \o <<"/">> \o repo.name

\* str::replace('/', "")
replace_slash_away(s) == SelectSeq(s, LAMBDA c : c /= "/")

\* str::replace('/', "__")
RECURSIVE replace_slash(_)
replace_slash(s) ==
    IF s = <<>> THEN <<>>
    ELSE (IF Head(s) = "/" THEN <<"_", "_">> ELSE <<Head(s)>>) \o replace_slash(Tail(s))

\* Repo::full_name_path_friendly
Repo_full_name_path_friendly(repo) == replace_slash(Repo_full_name(repo))

\* main.rs, lines 97-100: OutputDir::repo_dir, below repos_dir.
OutputDir_repo_dir(repo) == Repo_full_name_path_friendly(repo)

\* main.rs, lines 107-111: OutputDir::gource_log, below gource_dir.
OutputDir_gource_log(repo) ==
    Repo_full_name_path_friendly(repo) \o <<".", "t", "x", "t">>

(***************************************************************************)
(* include.rs: rule sets.                                                  *)
(***************************************************************************)
\* Entry::matches
Entry_matches(entry, repo) ==
    CASE entry.selector = "All" -> TRUE
      [] entry.selector = "Owner" -> repo.owner.login = entry.value
      [] entry.selector = "Name" -> repo.name = entry.value
      [] entry.selector = "FullName" -> Repo_full_name(repo) = entry.value
      [] entry.selector = "IsFork" -> bool_to_string(repo.fork) = entry.value
      [] entry.selector = "Public" -> bool_to_string(~repo.private) = entry.value

\* RuleSet::new
RuleSet_new == [includes |-> <<>>, excludes |-> <<>>]

\* RuleSet::merge letting the excludes of the other rule set replace those
\* of this one.
RuleSet_merge_replace_excludes(self, other) ==
    [includes |-> self.includes \o other.includes,
     excludes |-> IF other.excludes = <<>> THEN self.excludes ELSE other.excludes]

\* RuleSet::merge
RuleSet_merge(self, other) ==
    [includes |-> self.includes \o other.includes,
     excludes |-> self.excludes \o other.excludes]

\* Iterator::find returning the last entry that matches.
RECURSIVE find_match_last(_, _)
find_match_last(entries, repo) ==
    IF entries = <<>> THEN None
    ELSE IF Entry_matches(entries[Len(entries)], repo) THEN Some(entries[Len(entries)])
    ELSE find_match_last(SubSeq(entries, 1, Len(entries) - 1), repo)

\* Iterator::find over a list of entries: the first entry that matches.
RECURSIVE find_match(_, _)
find_match(entries, repo) ==
    IF entries = <<>> THEN None
    ELSE IF Entry_matches(Head(entries), repo) THEN Some(Head(entries))
    ELSE find_match(Tail(entries), repo)

\* RuleSet::test looking only at the first exclude entry.
RuleSet_test_first_exclude(self, repo) ==
    LET inclusion == find_match(self.includes, repo)
        exclusion == find_match(SubSeq(self.excludes, 1, 1), repo)
    IN IF inclusion.tag = "None" THEN [tag |-> "Default"]
       ELSE IF exclusion.tag = "None"
       THEN [tag |-> "Include", inclusion |-> inclusion.v]
       ELSE [tag |-> "Exclude", inclusion |-> inclusion.v, exclusion |-> exclusion.v]

\* RuleSet::test searching the excludes before the includes.
RuleSet_test_exclude_first(self, repo) ==
    LET inclusion == find_match(self.includes, repo)
        exclusion == find_match(self.excludes, repo)
    IN IF exclusion.tag = "Some"
       THEN [tag |-> "Exclude", inclusion |-> exclusion.v, exclusion |-> exclusion.v]
       ELSE IF inclusion.tag = "None" THEN [tag |-> "Default"]
       ELSE [tag |-> "Include", inclusion |-> inclusion.v]

\* RuleSet::test
RuleSet_test(self, repo) ==
    LET inclusion == find_match(self.includes, repo)
        exclusion == find_match(self.excludes, repo)
    IN IF inclusion.tag = "None" THEN [tag |-> "Default"]
       ELSE IF exclusion.tag = "None"
       THEN [tag |-> "Include", inclusion |-> inclusion.v]
       ELSE [tag |-> "Exclude", inclusion |-> inclusion.v, exclusion |-> exclusion.v]

\* IncludeResult::keep keeping whatever was not excluded.
IncludeResult_keep_unless_excluded(res) == res.tag /= "Exclude"

\* IncludeResult::keep
IncludeResult_keep(res) == res.tag = "Include"

\* RuleSet::apply: Vec::retain keeps, in order, the repositories whose
\* result says keep.
RuleSet_apply(self, rs) ==
    LET kept(r) == IncludeResult_keep(RuleSet_test(self, r))
    IN SelectSeq(rs, kept)

\* Error::from((line, kind))
Error_from(line, e) ==
    [tag |-> "Err", kind |-> e.kind, payload |-> e.payload, line |-> line]

\* The end of the loop body putting the entry at the front of its list.
RuleSet_push_front(include_file, exclude, entry) ==
    IF exclude
    THEN [include_file EXCEPT !.excludes = <<entry>> \o @]
    ELSE [include_file EXCEPT !.includes = <<entry>> \o @]

\* The end of the loop body of RuleSet::from_str: the entry goes to the
\* end of the list its line chose.
RuleSet_push(include_file, exclude, entry) ==
    IF exclude
    THEN [include_file EXCEPT !.excludes = Append(@, entry)]
    ELSE [include_file EXCEPT !.includes = Append(@, entry)]

\* The lines the parsers pass over: comments and blank lines.
is_skipped(line) == starts_with(line, "#") \/ line = <<>>

\* The line number RuleSet::from_str reports for the line at index x.
RuleSet_line_number(x) == x + 1

\* The loop of RuleSet::from_str from index x (0-based, as enumerate
\* counts) on, with the rule set built so far.
RECURSIVE RuleSet_from_lines(_, _, _)
RuleSet_from_lines(ls, x, include_file) ==
    IF x >= Len(ls) THEN Ok(include_file)
    ELSE LET line == trim(ls[x + 1]) IN
         IF is_skipped(line) THEN RuleSet_from_lines(ls, x + 1, include_file)
         ELSE LET exclude == starts_with(line, "!")
                  entry == Entry_from_str(IF exclude THEN Tail(line) ELSE line)
              IN IF entry.tag = "Err"
                 THEN Error_from(RuleSet_line_number(x), entry)
                 ELSE RuleSet_from_lines(ls, x + 1,
                                         RuleSet_push(include_file, exclude, entry.v))

\* <RuleSet as FromStr>::from_str
RuleSet_from_str(s) == RuleSet_from_lines(lines(s), 0, RuleSet_new)

(***************************************************************************)
(* ignore.rs: the ignore file, the rule language of the earlier variant.   *)
(***************************************************************************)
IgnoreSelector == {"All", "Owner", "Name", "FullName", "IsFork"}

IgnoreEntry_new(selector, value) == [selector |-> selector, value |-> value]

\* IgnoreFile::new
IgnoreFile_new == [entries |-> <<>>, inverted_entries |-> <<>>]

\* The selector an ignore-file token names: `public` is not one of them.
ignore_selector_of(part) ==
    IF part = S_star THEN Some("All")
    ELSE IF part = S_owner THEN Some("Owner")
    ELSE IF part = S_name THEN Some("Name")
    ELSE IF part = S_full_name THEN Some("FullName")
    ELSE IF part = S_is_fork THEN Some("IsFork")
    ELSE None

\* The body of the loop of IgnoreFile::from_str for one trimmed line that
\* is not skipped: the entry and the list it goes to, or the error kind.
IgnoreFile_line(line) ==
    LET parts == splitn2(line)
        inverted == starts_with(parts[1], "!")
        selector_part == IF inverted THEN Tail(parts[1]) ELSE parts[1]
        selector == ignore_selector_of(selector_part)
    IN IF selector.tag = "None"
       THEN ErrorKind("InvalidSelector", selector_part)
       ELSE IF Len(parts) < 2
       THEN ErrorKind("MissingValue", line)
       ELSE IF selector.v = "IsFork" /\ parts[2] /= S_true /\ parts[2] /= S_false
       THEN ErrorKind("InvalidBool", parts[2])
       ELSE Ok([inverted |-> inverted, entry |-> IgnoreEntry_new(selector.v, parts[2])])

\* The end of the loop body of IgnoreFile::from_str.
IgnoreFile_push(ignore_file, inverted, entry) ==
    IF inverted
    THEN [ignore_file EXCEPT !.inverted_entries = Append(@, entry)]
    ELSE [ignore_file EXCEPT !.entries = Append(@, entry)]

\* The line number IgnoreFile::from_str reports for the line at index x:
\* the index itself, as enumerate counts it.
IgnoreFile_line_number(x) == x

\* The loop of IgnoreFile::from_str from index x (0-based) on.
RECURSIVE IgnoreFile_from_lines(_, _, _)
IgnoreFile_from_lines(ls, x, ignore_file) ==
    IF x >= Len(ls) THEN Ok(ignore_file)
    ELSE LET line == trim(ls[x + 1]) IN
         IF is_skipped(line) THEN IgnoreFile_from_lines(ls, x + 1, ignore_file)
         ELSE LET r == IgnoreFile_line(line) IN
              IF r.tag = "Err"
              THEN Error_from(IgnoreFile_line_number(x), r)
              ELSE IgnoreFile_from_lines(ls, x + 1,
                       IgnoreFile_push(ignore_file, r.v.inverted, r.v.entry))

\* <IgnoreFile as FromStr>::from_str
IgnoreFile_from_str(s) == IgnoreFile_from_lines(lines(s), 0, IgnoreFile_new)

(***************************************************************************)
(* main.rs: the run.                                                       *)
(***************************************************************************)
Running == [tag |-> "Running"]
Failed(msg, source) == [tag |-> "Err", msg |-> msg, source |-> source]

\* Context::from_cli taking a rule source that does not parse for absent.
Context_includes_lenient(c) ==
    LET file == IF c.include_file.tag = "Some"
                THEN RuleSet_from_str(c.include_file.v)
                ELSE Ok(RuleSet_new)
        inline == IF c.include /= <<>>
                  THEN RuleSet_from_str(join(c.include))
                  ELSE Ok(RuleSet_new)
    IN IF file.tag = "Err" \/ inline.tag = "Err" \/ c.include_file.tag = "Unreadable"
       THEN Ok(None)
       ELSE Ok(Some(RuleSet_merge(file.v, inline.v)))

\* The rule sources of Context::from_cli: the includes file, then the
\* inline includes, merged in that order.  `file` is what reading
\* cli.include_file gives: None without -f, Unreadable when the read fails.
Context_includes(c) ==
    LET file == IF c.include_file.tag = "Some"
                THEN RuleSet_from_str(c.include_file.v)
                ELSE Ok(RuleSet_new)
        inline == IF c.include /= <<>>
                  THEN RuleSet_from_str(join(c.include))
                  ELSE Ok(RuleSet_new)
    IN IF c.include_file.tag = "Unreadable"
       THEN Failed("failed to read includes file", None)
       ELSE IF file.tag = "Err"
       THEN Failed("failed to parse includes file", file)
       ELSE IF inline.tag = "Err"
       THEN Failed("failed to parse command line includes", inline)
       ELSE IF c.include = <<>>
       THEN Ok(IF c.include_file.tag = "Some" THEN Some(file.v) ELSE None)
       ELSE IF c.include_file.tag = "Some"
       THEN Ok(Some(RuleSet_merge(file.v, inline.v)))
       ELSE Ok(Some(inline.v))

\* Context::from_cli.  data_dir is how choosing the data directory ended:
\* "ok", "error" (the prompt or the temporary directory failed) or
\* "refused" (the user declined and the process exited).
Context_from_cli(c, data_dir) ==
    IF data_dir = "refused" THEN Failed("exit(1)", None)
    ELSE IF data_dir = "error" THEN Failed("failed to create a temporary directory", None)
    ELSE LET includes == Context_includes(c) IN
         IF includes.tag = "Err" THEN includes
         ELSE Ok([includes |-> includes.v, skip_clone |-> c.skip_clone])

\* main, line 242
from_cli ==
    /\ pc = "from_cli"
    /\ \E data_dir \in {"ok", "error", "refused"} :
          LET r == Context_from_cli(cli, data_dir) IN
          IF r.tag = "Ok"
          THEN cx' = Some(r.v) /\ pc' = "list_repos" /\ UNCHANGED result
          ELSE result' = r /\ pc' = "exit" /\ UNCHANGED cx
    /\ UNCHANGED <<cli, catalog, repos, idx, dirs, git, logs, call, ret, fs, stage>>

\* main, line 263: the catalog arrives whole, or the request fails.
list_repos ==
    /\ pc = "list_repos"
    /\ \/ repos' = catalog /\ pc' = "filter" /\ UNCHANGED result
       \/ result' = Failed("failed to list repos", None) /\ pc' = "exit" /\ UNCHANGED repos
    /\ UNCHANGED <<cli, catalog, cx, idx, dirs, git, logs, call, ret, fs, stage>>

\* main, lines 267-269: the rules are applied only when a rule source was given.
filtered(includes, rs) ==
    IF includes.tag = "Some" THEN RuleSet_apply(includes.v, rs) ELSE rs

filter ==
    /\ pc = "filter"
    /\ repos' = filtered(cx.v.includes, repos)
    /\ pc' = "clone"
    /\ idx' = 0
    /\ UNCHANGED <<cli, catalog, cx, dirs, git, logs, result, call, ret, fs, stage>>

Idle == [fn |-> "none"]
NoFiles == [logs |-> <<>>, sorted |-> None]

\* The end of a `for repo in &repos` loop.
loop_done_one_early(i, rs) == i + 1 >= Len(rs)

\* main, lines 289 and 314: `for repo in &repos` has handled every entry.
loop_done(i, rs) == i = Len(rs)

\* github::fetch_repo cloning whether or not the working copy exists.
git_command_always_clone(repo, present) ==
    [cmd |-> "clone", dir |-> Repo_full_name_path_friendly(repo)]

\* github::fetch_repo: pull when the working copy exists, clone otherwise.
git_command(repo, present) ==
    [cmd |-> IF Repo_full_name_path_friendly(repo) \in present THEN "pull" ELSE "clone",
     dir |-> Repo_full_name_path_friendly(repo)]

\* The clone loop entered whatever cx.skip_clone is.
clone_skipped_never(c) == FALSE

\* main, line 283: if !cx.skip_clone
clone_skipped(c) == c.skip_clone

\* main, lines 289-294: one turn of the clone loop; a failed fetch ends the run.
fetch_repo ==
    /\ pc = "clone" /\ ~clone_skipped(cx.v) /\ ~loop_done(idx, repos)
    /\ LET cmd == git_command(repos[idx + 1], dirs) IN
       /\ git' = Append(git, cmd)
       /\ \/ /\ dirs' = dirs \cup {cmd.dir}
             /\ idx' = idx + 1
             /\ UNCHANGED <<pc, result>>
          \/ /\ result' = Failed("failed to fetch repo", None)
             /\ pc' = "exit"
             /\ UNCHANGED <<dirs, idx>>
    /\ UNCHANGED <<cli, catalog, cx, repos, logs, call, ret, fs, stage>>

\* main, lines 283-311: the clone loop is over, or was skipped; the gource
\* log directory is created when missing, which may fail.
clone_done ==
    /\ pc = "clone" /\ (clone_skipped(cx.v) \/ loop_done(idx, repos))
    /\ \/ pc' = "gource_logs" /\ idx' = 0 /\ UNCHANGED result
       \/ /\ result' = Failed("failed to create gource log directory", None)
          /\ pc' = "exit" /\ UNCHANGED idx
    /\ UNCHANGED <<cli, catalog, cx, repos, dirs, git, logs, call, ret, fs, stage>>

\* main, lines 314-319: one turn of the log loop begins; gource is run on
\* the working copy (gource.rs, lines 21-39), and its failure ends the run
\* before the log file is opened.
generate_gource_log ==
    /\ pc = "gource_logs" /\ ~loop_done(idx, repos) /\ stage = Idle
    /\ \/ /\ stage' = [fn |-> "generate_gource_log", at |-> "write",
                        repo |-> Repo_full_name_path_friendly(repos[idx + 1])]
          /\ UNCHANGED <<pc, result>>
       \/ /\ result' = Failed("failed to generate gource log", None)
          /\ pc' = "exit"
          /\ UNCHANGED stage
    /\ UNCHANGED <<cli, catalog, cx, repos, idx, dirs, git, logs, call, ret, fs>>

\* gource.rs, lines 52-60: the log file is opened and written, and the
\* turn of the loop ends; a failure ends the run, with the file created
\* or not.
write_gource_log ==
    /\ pc = "gource_logs" /\ stage.fn = "generate_gource_log"
    /\ stage' = Idle
    /\ \/ /\ logs' = logs \cup {stage.repo}
          /\ idx' = idx + 1
          /\ UNCHANGED <<pc, result>>
       \/ /\ result' = Failed("failed to generate gource log", None)
          /\ pc' = "exit"
          /\ \E created \in BOOLEAN :
                logs' = IF created THEN logs \cup {stage.repo} ELSE logs
          /\ UNCHANGED idx
    /\ UNCHANGED <<cli, catalog, cx, repos, dirs, git, call, ret, fs>>

\* main, lines 321-327: the log loop is over and the merge stage is called.
combine_and_sort_logs ==
    /\ pc = "gource_logs" /\ loop_done(idx, repos)
    /\ pc' = "combine"
    /\ stage' = [fn |-> "combine_and_sort_logs", at |-> "read"]
    /\ UNCHANGED <<cli, catalog, cx, repos, idx, dirs, git, logs, result, call, ret, fs>>

\* The `?` of main going on after an error.
propagate_never(r, next) == next

\* main, line 327: the `?` returns from main when the stage returned an
\* error, and goes on to the next stage otherwise.
propagate(r, next) == IF r.tag = "Err" THEN "exit" ELSE next

\* main, line 327: the merge stage returns.
combine_and_sort_logs_returns ==
    /\ pc = "combine"
    /\ stage' = Idle
    /\ \E r \in {[tag |-> "Ok"], Failed("failed to combine and sort logs", None)} :
          /\ pc' = propagate(r, "video")
          /\ result' = IF r.tag = "Err" THEN r ELSE result
    /\ UNCHANGED <<cli, catalog, cx, repos, idx, dirs, git, logs, call, ret, fs>>

\* main, lines 329-345
generate_gource_video ==
    /\ pc = "video"
    /\ pc' = "exit"
    /\ \/ result' = [tag |-> "Ok"]
       \/ result' = Failed("failed to generate gource video", None)
    /\ UNCHANGED <<cli, catalog, cx, repos, idx, dirs, git, logs, call, ret, fs, stage>>

(***************************************************************************)
(* Inputs of the model.                                                    *)
(***************************************************************************)
SeqsUpTo(S, n) == UNION {[1..k -> S] : k \in 0..n}

A == <<"a">>
B == <<"b">>
R == <<"r">>
S == <<"s">>

L_all == S_star \o <<":">> \o S_star
L_owner_a == S_owner \o <<":">> \o A
L_name_r == S_name \o <<":">> \o R
L_full_name_a_s == S_full_name \o <<":">> \o A \o <<"/">> \o S
L_not_owner_a == <<"!">> \o L_owner_a
L_not_owner_b == <<"!">> \o S_owner \o <<":">> \o B
L_not_fork == <<"!">> \o S_is_fork \o <<":">> \o S_true
L_not_private == <<"!">> \o S_public \o <<":">> \o S_false
L_public == S_public \o <<":">> \o S_true
L_comment == <<"#", " ", "c">>
L_bad_bool == S_is_fork \o <<":", "n", "o">>
L_bogus == <<"b", "o", "g", "u", "s">>

\* The lines the parsers are given: includes, excludes, comments and
\* blank lines, padding, a "\r" before the line end, and one line for each
\* kind of error (`owner:` has an empty value).
TextLines ==
    {L_all, L_not_owner_a, L_comment, <<" ", "#", "c">>, <<>>,
     <<" ", "\t">> \o L_name_r \o <<" ">>, L_not_fork \o <<"\r">>,
     L_bad_bool, L_bogus, S_owner, S_owner \o <<":">>}

\* What is written in a rule text, line by line; the text is the lines
\* joined by "\n".
Written == SeqsUpTo(TextLines, MaxLines)

\* The lines Entry::from_str is given: a selector token, recognized or
\* not, followed by nothing, by ':' alone or by ':' and a value.
SelectorTokens ==
    {S_star, S_owner, S_name, S_full_name, S_is_fork, S_public,
     <<"O", "w", "n", "e", "r">>, <<"o", "w", "n">>, <<"i", "n", "v", "a", "l", "i", "d">>, <<>>}

Rests ==
    {<<>>, <<":">>, <<":">> \o A, <<":">> \o S_true, <<":">> \o S_false,
     <<":", "n", "o">>, <<":", "T", "r", "u", "e">>, <<":", "a", ":", "b">>,
     <<":", "a", " ", "b">>, <<":", ":">>}

EntryLines == {t \o r : t \in SelectorTokens, r \in Rests}

\* Repositories: two owners, two names, forks and private repositories,
\* with and without the full_name of the catalog record.
Repos ==
    {Repo(o, n, f, fork, private) :
        o \in {A, B}, n \in {R, S}, f \in {"absent", "present"},
        fork \in BOOLEAN, private \in BOOLEAN}

AllRepos ==
    {[r EXCEPT !.full_name = IF @ = "present"
                             THEN Some(r.owner.login \o <<"/">> \o r.name)
                             ELSE None] : r \in Repos}

Entries ==
    {Entry_new("All", S_star), Entry_new("Owner", A), Entry_new("Name", R),
     Entry_new("FullName", A \o <<"/">> \o S), Entry_new("IsFork", S_true),
     Entry_new("Public", S_false)}

\* The rule sets RuleSet::test is given: at most MaxEntries entries,
\* split in every way between the two lists.
RuleSets ==
    UNION {{[includes |-> SubSeq(es, 1, j), excludes |-> SubSeq(es, j + 1, Len(es))] :
               j \in 0..Len(es)} : es \in SeqsUpTo(Entries, MaxEntries)}

\* The command lines of the run.
R1 == Repo(A, R, Some(A \o <<"/">> \o R), FALSE, FALSE)
R2 == Repo(A, S, None, TRUE, FALSE)
R3 == Repo(B, R, Some(B \o <<"/">> \o R), FALSE, TRUE)
R4 == Repo(B, S, None, TRUE, TRUE)

CatalogPool == {R1, R2, R3, R4}

FileTexts ==
    {join(<<L_comment, L_all, L_not_private, L_not_fork>>),
     join(<<L_owner_a>>),
     <<>>,
     join(<<L_not_owner_a>>),
     join(<<L_all, <<>>, L_bad_bool>>),
     join(<<L_full_name_a_s, L_name_r>>)}

InlineArgs ==
    {<<>>, <<L_name_r>>, <<L_not_owner_b, L_public>>, <<S_owner>>}

Pending == [tag |-> "Pending"]
NoCall == [op |-> "none"]

(***************************************************************************)
(* The run of main.                                                        *)
(***************************************************************************)
Init ==
    /\ pc = "from_cli"
    /\ cli \in [include_file : {None, [tag |-> "Unreadable"]} \cup {Some(t) : t \in FileTexts},
                include : InlineArgs,
                skip_clone : BOOLEAN]
    /\ catalog \in SeqsUpTo(CatalogPool, MaxRepos)
    /\ cx = None
    /\ repos = <<>>
    /\ idx = 0
    /\ dirs \in SUBSET {Repo_full_name_path_friendly(R1), Repo_full_name_path_friendly(R2)}
    /\ git = <<>>
    /\ logs = {}
    /\ result = Running
    /\ call = NoCall
    /\ ret = Pending
    /\ fs = NoFiles
    /\ stage = Idle

Next ==
    \/ from_cli
    \/ list_repos
    \/ filter
    \/ fetch_repo
    \/ clone_done
    \/ generate_gource_log
    \/ write_gource_log
    \/ combine_and_sort_logs
    \/ combine_and_sort_logs_returns
    \/ generate_gource_video

Spec == Init /\ [][Next]_vars

(***************************************************************************)
(* The rule engine, function by function: a call is drawn, then made.      *)
(***************************************************************************)
InitRules ==
    /\ pc = "idle"
    /\ cli = None
    /\ catalog = <<>>
    /\ cx = None
    /\ repos = <<>>
    /\ idx = 0
    /\ dirs = {}
    /\ git = <<>>
    /\ logs = {}
    /\ result = Running
    /\ ret = Pending
    /\ fs = NoFiles
    /\ stage = Idle
    /\ \/ \E l \in EntryLines : call = [op |-> "Entry::from_str", line |-> l]
       \/ \E ls \in Written :
             call = [op |-> "RuleSet::from_str", s |-> join(ls), written |-> ls]
       \/ \E ls \in Written :
             call = [op |-> "IgnoreFile::from_str", s |-> join(ls), written |-> ls]
       \/ \E rs \in RuleSets, r \in AllRepos :
             call = [op |-> "RuleSet::test", self |-> rs, repo |-> r]
       \/ \E e \in Entries \cup {Entry_new("FullName", B \o <<"/">> \o S)},
             r \in AllRepos \cup {Repo(A, S, Some(B \o <<"/">> \o S), FALSE, FALSE)} :
             call = [op |-> "Entry::matches", self |-> e, repo |-> r]
       \/ \E o1 \in SeqsUpTo({"a", "_"}, MaxName), n1 \in SeqsUpTo({"a", "_"}, MaxName),
             o2 \in SeqsUpTo({"a", "_"}, MaxName), n2 \in SeqsUpTo({"a", "_"}, MaxName) :
             /\ o1 /= <<>> /\ n1 /= <<>> /\ o2 /= <<>> /\ n2 /= <<>>
             /\ call = [op |-> "OutputDir::paths",
                        self |-> Repo(o1, n1, None, FALSE, FALSE),
                        other |-> Repo(o2, n2, None, FALSE, FALSE)]
       \/ \E es \in SeqsUpTo(Entries, MaxEntries) :
             \E i \in 0..Len(es), j \in 0..Len(es), k \in 0..Len(es) :
                /\ i <= j /\ j <= k
                /\ call = [op |-> "RuleSet::merge",
                           self |-> [includes |-> SubSeq(es, 1, i),
                                     excludes |-> SubSeq(es, i + 1, j)],
                           other |-> [includes |-> SubSeq(es, j + 1, k),
                                      excludes |-> SubSeq(es, k + 1, Len(es))]]

returns(v) ==
    /\ ret.tag = "Pending"
    /\ ret' = v
    /\ UNCHANGED <<pc, cli, catalog, cx, repos, idx, dirs, git, logs, result, call, fs, stage>>

call_Entry_from_str ==
    call.op = "Entry::from_str" /\ returns(Entry_from_str(call.line))

call_RuleSet_from_str ==
    call.op = "RuleSet::from_str" /\ returns(RuleSet_from_str(call.s))

call_IgnoreFile_from_str ==
    call.op = "IgnoreFile::from_str" /\ returns(IgnoreFile_from_str(call.s))

call_RuleSet_test ==
    call.op = "RuleSet::test" /\ returns(RuleSet_test(call.self, call.repo))

call_Entry_matches ==
    call.op = "Entry::matches" /\ returns(Some(Entry_matches(call.self, call.repo)))

\* main.rs, lines 97-111: the working copy and the log file of two
\* repositories of the catalog.
call_OutputDir_paths ==
    /\ call.op = "OutputDir::paths"
    /\ returns(Some([repo_dir |-> <<OutputDir_repo_dir(call.self),
                                     OutputDir_repo_dir(call.other)>>,
                      gource_log |-> <<OutputDir_gource_log(call.self),
                                       OutputDir_gource_log(call.other)>>]))

call_RuleSet_merge ==
    call.op = "RuleSet::merge" /\ returns(Some(RuleSet_merge(call.self, call.other)))

NextRules ==
    \/ call_Entry_from_str
    \/ call_RuleSet_from_str
    \/ call_IgnoreFile_from_str
    \/ call_RuleSet_test
    \/ call_Entry_matches
    \/ call_OutputDir_paths
    \/ call_RuleSet_merge

SpecRules == InitRules /\ [][NextRules]_vars

(***************************************************************************)
(* Properties of RuleSet::test.                                            *)
(***************************************************************************)
Tested == call.op = "RuleSet::test" /\ ret.tag /= "Pending"

SomeMatch(entries, repo) == \E i \in DOMAIN entries : Entry_matches(entries[i], repo)

\* C1: when at least one include entry and at least one exclude entry
\* match the repository, RuleSet::test answers Exclude, never Include,
\* whatever the selectors of the matching entries and wherever they sit in
\* their lists.
C1_ExcludeOverridesInclude ==
    Tested =>
        (SomeMatch(call.self.includes, call.repo) /\ SomeMatch(call.self.excludes, call.repo)
            => ret.tag = "Exclude")

\* C1 happens: the answer is Exclude although the first exclude entry does
\* not match the repository and the first include entry does not either.
C1_Witness ==
    /\ Tested
    /\ ret.tag = "Exclude"
    /\ Len(call.self.excludes) >= 2
    /\ ~Entry_matches(call.self.excludes[1], call.repo)

\* C2: when no include entry matches the repository the answer is Default,
\* also when exclude entries match it; the answer is Exclude only when some
\* include entry matches.
C2_DefaultWithoutInclude ==
    Tested =>
        /\ ~SomeMatch(call.self.includes, call.repo) => ret.tag = "Default"
        /\ ret.tag = "Exclude" => SomeMatch(call.self.includes, call.repo)

\* C2 happens: the answer is Default for a repository that an exclude
\* entry matches, with a rule set that has include entries.
C2_Witness ==
    /\ Tested
    /\ ret.tag = "Default"
    /\ call.self.includes /= <<>>
    /\ SomeMatch(call.self.excludes, call.repo)

(***************************************************************************)
(* Properties of the filtering of the catalog in main.                     *)
(***************************************************************************)
\* The stages of main that follow the filtering of the catalog.
Filtered == pc \in {"clone", "gource_logs", "combine", "video"}

\* The include entries the run was given: none when no rule source was given.
IncludesGiven ==
    IF cx.v.includes.tag = "Some" THEN cx.v.includes.v.includes ELSE <<>>

\* C3: default-deny.  A repository reaches the fetch stage only if some
\* explicit include entry matched it; with an empty or absent RuleSet every
\* repository of the catalog is dropped and none reaches the fetch stage.
C3_DefaultDeny ==
    Filtered => \A i \in DOMAIN repos : SomeMatch(IncludesGiven, repos[i])

\* C4: after RuleSet::apply the catalog holds exactly the repositories
\* whose verdict under RuleSet::test is Include, in their original relative
\* order: the kept repositories are the catalog's entries at increasing
\* positions, and a position is kept exactly when its verdict is Include.
C4_ApplyKeepsIncluded ==
    (Filtered /\ cx.v.includes.tag = "Some") =>
        \E f \in [DOMAIN repos -> DOMAIN catalog] :
            /\ \A i, j \in DOMAIN repos : i < j => f[i] < f[j]
            /\ \A i \in DOMAIN repos : repos[i] = catalog[f[i]]
            /\ \A k \in DOMAIN catalog :
                  (\E i \in DOMAIN repos : f[i] = k)
                      <=> RuleSet_test(cx.v.includes.v, catalog[k]).tag = "Include"

\* C4 happens: rules were applied to a catalog of which the second
\* repository was kept and the first dropped.
C4_Witness ==
    /\ pc = "clone"
    /\ cx.v.includes.tag = "Some"
    /\ Len(catalog) >= 2
    /\ repos = <<catalog[2]>>
    /\ catalog[1] /= catalog[2]

(***************************************************************************)
(* Properties of the parsers.                                              *)
(***************************************************************************)
EntryParsed == call.op = "Entry::from_str" /\ ret.tag /= "Pending"
RuleSetParsed == call.op = "RuleSet::from_str" /\ ret.tag /= "Pending"
IgnoreFileParsed == call.op = "IgnoreFile::from_str" /\ ret.tag /= "Pending"

\* What a written line says once the white space around it is set aside.
Ink(l) ==
    LET I == {i \in DOMAIN l : l[i] \notin {" ", "\t", "\r", "\n"}} IN
    IF I = {} THEN <<>>
    ELSE SubSeq(l, CHOOSE i \in I : \A j \in I : i <= j,
                   CHOOSE i \in I : \A j \in I : j <= i)

IsRuleLine(l) == Ink(l) /= <<>> /\ Ink(l)[1] /= "#"
IsExcludeLine(l) == IsRuleLine(l) /\ Ink(l)[1] = "!"
IsIncludeLine(l) == IsRuleLine(l) /\ Ink(l)[1] /= "!"

\* The rule a written rule line states: its text without the '!'.
RuleOf(l) == IF Ink(l)[1] = "!" THEN Tail(Ink(l)) ELSE Ink(l)

\* C5: parsing a rule text passes over blank lines and lines whose first
\* character after trimming is '#', puts every line with a leading '!'
\* into the exclude list (inverted_entries for IgnoreFile) and every other
\* line into the include list, each list in the order of the lines.
C5_ParseRoutesLines ==
    /\ (RuleSetParsed /\ ret.tag = "Ok") =>
          LET inc == SelectSeq(call.written, IsIncludeLine)
              exc == SelectSeq(call.written, IsExcludeLine)
          IN /\ ret.v.includes = [i \in DOMAIN inc |-> Entry_from_str(RuleOf(inc[i])).v]
             /\ ret.v.excludes = [i \in DOMAIN exc |-> Entry_from_str(RuleOf(exc[i])).v]
    /\ (IgnoreFileParsed /\ ret.tag = "Ok") =>
          LET inc == SelectSeq(call.written, IsIncludeLine)
              exc == SelectSeq(call.written, IsExcludeLine)
          IN /\ ret.v.entries = [i \in DOMAIN inc |-> IgnoreFile_line(Ink(inc[i])).v.entry]
             /\ ret.v.inverted_entries = [i \in DOMAIN exc |-> IgnoreFile_line(Ink(exc[i])).v.entry]

\* C5 happens: a text of a comment and two different exclude lines was
\* parsed into a rule set.
C5_Witness ==
    /\ RuleSetParsed /\ ret.tag = "Ok"
    /\ Len(call.written) = 3
    /\ ~IsRuleLine(call.written[1])
    /\ Len(ret.v.excludes) = 2
    /\ ret.v.excludes[1] /= ret.v.excludes[2]

\* The lines of a text that a parser rejects, numbered from 1 over all the
\* lines written, blank and comment lines included.
Offending(written, rejects(_)) ==
    {i \in DOMAIN written : IsRuleLine(written[i]) /\ rejects(written[i])}

RuleSetRejects(l) == Entry_from_str(RuleOf(l)).tag = "Err"
IgnoreFileRejects(l) == IgnoreFile_line(Ink(l)).tag = "Err"

IsFirstOf(n, I) == n \in I /\ \A j \in I : n <= j

\* C6: every parse error of RuleSet::from_str and of IgnoreFile::from_str
\* carries the 1-based number of the first offending line of the text,
\* counted over all lines, skipped ones included.
C6_ErrorLineOneBased ==
    /\ (RuleSetParsed /\ ret.tag = "Err") =>
           IsFirstOf(ret.line, Offending(call.written, RuleSetRejects))
    /\ (IgnoreFileParsed /\ ret.tag = "Err") =>
           IsFirstOf(ret.line, Offending(call.written, IgnoreFileRejects))

\* The six selector tokens, each with the selector it names.
Recognized ==
    {<<S_star, "All">>, <<S_owner, "Owner">>, <<S_name, "Name">>,
     <<S_full_name, "FullName">>, <<S_is_fork, "IsFork">>, <<S_public, "Public">>}

IsBool(v) == v = S_true \/ v = S_false

\* C7: for a line `selector:value` with a recognized selector the stored
\* value is everything after the first ':' verbatim, further ':' and inner
\* spaces included.  (A value that is not a boolean is not one an is_fork
\* or public entry stores.)
C7_ValueAfterFirstColon ==
    EntryParsed =>
        \A t \in Recognized, r \in Rests :
            (call.line = t[1] \o r /\ Len(r) >= 2
                /\ (t[2] \in {"IsFork", "Public"} => IsBool(Tail(r))))
            => ret = Ok(Entry_new(t[2], Tail(r)))

\* C7 happens: an entry was parsed whose value holds a ':'.
C7_Witness ==
    /\ EntryParsed /\ ret.tag = "Ok"
    /\ \E i \in DOMAIN ret.v.value : ret.v.value[i] = ":"

\* C8: a line whose selector is recognized and which has no ':' at all, or
\* nothing after its first ':', fails with MissingValue carrying the text
\* of the line; no entry with an empty value is stored in a parsed RuleSet.
C8_MissingValue ==
    /\ EntryParsed =>
          \A t \in Recognized :
              call.line \in {t[1], t[1] \o <<":">>}
                  => ret = ErrorKind("MissingValue", call.line)
    /\ (RuleSetParsed /\ ret.tag = "Ok") =>
          /\ \A i \in DOMAIN ret.v.includes : ret.v.includes[i].value /= <<>>
          /\ \A i \in DOMAIN ret.v.excludes : ret.v.excludes[i].value /= <<>>

\* C8 happens: `owner:` was parsed and rejected for its missing value.
C8_Witness ==
    /\ EntryParsed
    /\ call.line = S_owner \o <<":">>
    /\ ret.tag = "Err" /\ ret.kind = "MissingValue"

\* The value of a written rule line whose selector is is_fork or public:
\* what follows `is_fork:` or `public:` (no value for any other line).
BoolRuleValues(l) ==
    LET r == RuleOf(l) IN
    {SubSeq(r, Len(t) + 2, Len(r)) :
        t \in {t \in {S_is_fork, S_public} :
                  Len(r) > Len(t) /\ SubSeq(r, 1, Len(t) + 1) = t \o <<":">>}}

\* A written line with an is_fork or public selector and a value v that
\* is neither `true` nor `false`.
BadBoolValue(l, v) ==
    IsRuleLine(l) /\ v \in BoolRuleValues(l) /\ v /= <<>> /\ ~IsBool(v)

IsBadBoolLine(l) ==
    IsRuleLine(l) /\ \E v \in BoolRuleValues(l) : v /= <<>> /\ ~IsBool(v)

\* The lines of the rule sources of the run: the includes file and the
\* inline includes.
FileLines == IF cli.include_file.tag = "Some" THEN lines(cli.include_file.v) ELSE <<>>
InlineLines == cli.include

AllEntries(rules) == {rules.includes[i] : i \in DOMAIN rules.includes}
                         \cup {rules.excludes[i] : i \in DOMAIN rules.excludes}

\* C9: in every successfully parsed RuleSet, also after the merge of the
\* includes file with the inline includes, each entry whose selector is
\* IsFork or Public has the value `true` or `false`; a line with such a
\* selector and any other value fails the whole parse, and the error that
\* reports such a line is InvalidBool(value).
C9_BoolValues ==
    /\ (cx.tag = "Some" /\ cx.v.includes.tag = "Some") =>
          \A e \in AllEntries(cx.v.includes.v) :
              e.selector \in {"IsFork", "Public"} => IsBool(e.value)
    /\ cx.tag = "Some" =>
          LET written == FileLines \o InlineLines
          IN \A i \in DOMAIN written : ~IsBadBoolLine(written[i])
    /\ (result.tag = "Err" /\ result.source.tag = "Err") =>
          LET src == IF result.msg = "failed to parse includes file"
                     THEN FileLines ELSE InlineLines
              l == src[result.source.line]
          IN /\ result.source.kind = "InvalidBool" => BadBoolValue(l, result.source.payload)
             /\ IsBadBoolLine(l) => result.source.kind = "InvalidBool"

\* C9 happens: the includes file and the inline includes were merged into
\* a rule set with a public entry from the one and an is_fork entry from
\* the other.
C9_Witness ==
    /\ cx.tag = "Some" /\ cx.v.includes.tag = "Some"
    /\ cli.include_file.tag = "Some" /\ cli.include /= <<>>
    /\ \E i \in DOMAIN cx.v.includes.v.includes :
          cx.v.includes.v.includes[i] = Entry_new("Public", S_true)
    /\ \E i \in DOMAIN cx.v.includes.v.excludes :
          cx.v.includes.v.excludes[i] = Entry_new("IsFork", S_true)

\* C10: a selector token that is not exactly one of the six fails with
\* InvalidSelector(token), and this precedes the value checks: such a token
\* with no ':' after it yields InvalidSelector, not MissingValue.
C10_InvalidSelectorFirst ==
    EntryParsed =>
        \A t \in SelectorTokens, r \in Rests :
            (call.line = t \o r /\ t \notin {x[1] : x \in Recognized})
            => ret = ErrorKind("InvalidSelector", t)

\* C10 happens: a line of an unrecognized token and no ':' was rejected.
C10_Witness ==
    /\ EntryParsed
    /\ call.line = <<"i", "n", "v", "a", "l", "i", "d">>
    /\ ret.tag = "Err" /\ ret.kind = "InvalidSelector"

(***************************************************************************)
(* Order of the entries and of the merge.                                  *)
(***************************************************************************)
Merged == call.op = "RuleSet::merge" /\ ret.tag /= "Pending"

\* The arrangements of a list of entries.
Reorder(entries) ==
    {[i \in DOMAIN entries |-> entries[p[i]]] : p \in Permutations(DOMAIN entries)}

\* C11: the kind of verdict RuleSet::test gives a repository (Default,
\* Include or Exclude) is the same for every arrangement of the entries
\* within the include list and within the exclude list, and the rule set
\* merged from a and b gives every repository the same kind of verdict,
\* and so keeps and drops the same repositories, as the one merged from b
\* and a.
C11_OrderIndependent ==
    /\ Tested =>
          \A inc \in Reorder(call.self.includes), exc \in Reorder(call.self.excludes) :
              RuleSet_test([includes |-> inc, excludes |-> exc], call.repo).tag = ret.tag
    /\ Merged =>
          LET swapped == RuleSet_merge(call.other, call.self) IN
          /\ ret.v.includes \in Reorder(swapped.includes)
          /\ ret.v.excludes \in Reorder(swapped.excludes)
          /\ \A r \in AllRepos :
                /\ RuleSet_test(ret.v, r).tag = RuleSet_test(swapped, r).tag
                /\ IncludeResult_keep(RuleSet_test(ret.v, r))
                      <=> IncludeResult_keep(RuleSet_test(swapped, r))

\* C11 happens: two rule sets that both have exclude entries were merged,
\* the two orders of merging give different lists, and a repository is
\* excluded by an entry that only one of the two brought.
C11_Witness ==
    /\ Merged
    /\ call.self.excludes /= <<>> /\ call.other.excludes /= <<>>
    /\ ret.v /= RuleSet_merge(call.other, call.self)
    /\ \E r \in AllRepos :
          /\ RuleSet_test(ret.v, r).tag = "Exclude"
          /\ ~SomeMatch(call.other.excludes, r)

\* C12: the entries a verdict carries are the first matching entries in
\* parse order: the inclusion is the include entry of least index that
\* matches the repository, and the exclusion of an Exclude verdict is the
\* exclude entry of least index that matches it.
FirstMatch(entries, repo, e) ==
    \E i \in DOMAIN entries :
        /\ entries[i] = e
        /\ Entry_matches(entries[i], repo)
        /\ \A j \in 1..(i - 1) : ~Entry_matches(entries[j], repo)

C12_FirstMatchCarried ==
    Tested =>
        /\ ret.tag \in {"Include", "Exclude"}
              => FirstMatch(call.self.includes, call.repo, ret.inclusion)
        /\ ret.tag = "Exclude"
              => FirstMatch(call.self.excludes, call.repo, ret.exclusion)

\* C12 happens: a private fork is excluded by a rule set whose excludes
\* are public:false and then is_fork:true; both match, and the verdict
\* carries public:false.
C12_Witness ==
    /\ Tested
    /\ call.self.excludes = <<Entry_new("Public", S_false), Entry_new("IsFork", S_true)>>
    /\ call.repo.fork /\ call.repo.private
    /\ ret.tag = "Exclude"
    /\ ret.exclusion = Entry_new("Public", S_false)

(***************************************************************************)
(* The end of the run at a failure, and the start of the merge stage.      *)
(***************************************************************************)
\* The failures of the work on one repository.
PerRepositoryFailures == {"failed to fetch repo", "failed to generate gource log"}

\* C14: the failure of one repository is isolated: the run does not end
\* with the failure of a fetch or of a log extraction, and when the run
\* is over (clones not skipped) a fetch was issued for every repository of
\* the filtered catalog.
C14_FailureIsolated ==
    /\ result.tag = "Err" => result.msg \notin PerRepositoryFailures
    /\ (pc = "exit" /\ cx.tag = "Some" /\ ~cx.v.skip_clone) => Len(git) = Len(repos)

\* C15: while the merge stage runs, the fetch and the log extraction of
\* every repository of the filtered catalog are over, and no log is being
\* written.
C15_Barrier ==
    pc = "combine" =>
        /\ stage.fn = "combine_and_sort_logs"
        /\ idx = Len(repos)
        /\ \A i \in DOMAIN repos : Repo_full_name_path_friendly(repos[i]) \in logs
        /\ ~cx.v.skip_clone =>
              /\ Len(git) = Len(repos)
              /\ \A i \in DOMAIN repos : Repo_full_name_path_friendly(repos[i]) \in dirs

\* C15 happens: the merge stage runs over two repositories, both fetched
\* and both with their log written.
C15_Witness ==
    /\ pc = "combine"
    /\ Len(repos) = 2 /\ repos[1] /= repos[2]
    /\ Len(git) = 2
    /\ Cardinality(logs) = 2

(***************************************************************************)
(* qsv.rs: the merge stage, combine_and_sort_logs, step by step.           *)
(*                                                                         *)
(* The stage drives two child processes, `qsv sort -d | -n -s 1` and       *)
(* `qsv fmt -t | -o <sorted log>`.  What the two programs do with their    *)
(* input is their contract: sort reads rows of '|'-delimited fields and,   *)
(* when it exits with status 0, has written all of them in the order of a  *)
(* stable sort on the first field compared as a byte string; fmt, when it  *)
(* exits with status 0, has written the rows it read to the sorted log,    *)
(* the fields delimited by '|'.                                            *)
(***************************************************************************)
\* The rows of a text: every line, as the list of its '|'-delimited fields.
RECURSIVE split_fields(_)
split_fields(row) ==
    LET n == find(row, "|") IN
    IF n = 0 THEN <<row>>
    ELSE <<SubSeq(row, 1, n - 1)>> \o split_fields(SubSeq(row, n + 1, Len(row)))

read_rows(text) == [i \in DOMAIN lines(text) |-> split_fields(lines(text)[i])]

\* The fields of a row written with '|' between them.
RECURSIVE join_fields(_)
join_fields(fields) ==
    IF fields = <<>> THEN <<>>
    ELSE IF Len(fields) = 1 THEN fields[1]
    ELSE fields[1] \o <<"|">> \o join_fields(Tail(fields))

\* Rows written as a text, one line each.
RECURSIVE write_rows(_)
write_rows(rows) ==
    IF rows = <<>> THEN <<>>
    ELSE join_fields(Head(rows)) \o <<"\n">> \o write_rows(Tail(rows))

\* The order of the bytes that the keys of the model are made of.
Digits == <<"0", "1", "2", "3", "4", "5", "6", "7", "8", "9">>
byte(c) == CHOOSE i \in DOMAIN Digits : Digits[i] = c

\* a <= b, as byte strings
RECURSIVE bytes_le(_, _)
bytes_le(a, b) ==
    IF a = <<>> THEN TRUE
    ELSE IF b = <<>> THEN FALSE
    ELSE IF Head(a) = Head(b) THEN bytes_le(Tail(a), Tail(b))
    ELSE byte(Head(a)) < byte(Head(b))

\* A row put after the rows whose first field is not greater than its own.
RECURSIVE insert_row(_, _)
insert_row(sorted, row) ==
    IF sorted = <<>> THEN <<row>>
    ELSE IF bytes_le(Head(sorted)[1], row[1])
    THEN <<Head(sorted)>> \o insert_row(Tail(sorted), row)
    ELSE <<row>> \o sorted

RECURSIVE sort_rows(_)
sort_rows(rows) ==
    IF rows = <<>> THEN <<>>
    ELSE insert_row(sort_rows(SubSeq(rows, 1, Len(rows) - 1)), rows[Len(rows)])

\* `qsv sort -d | -n -s 1`: the rows written to its stdout when it exits 0.
qsv_sort(text) == sort_rows(read_rows(text))

\* `qsv fmt -t | -o <sorted log>`: the file it has written when it exits 0.
qsv_fmt(rows) == write_rows(rows)

\* Settings::gource_log_file, as the key of the file in fs.logs
gource_log_file(repo) == Repo_full_name_path_friendly(repo)

\* tokio::fs::read_to_string taking a missing file for an empty one.
read_to_string_or_empty(files, path) ==
    IF path \in DOMAIN files THEN Ok(files[path]) ELSE Ok(<<>>)

\* tokio::fs::read_to_string of a log file; a missing file is an error.
read_to_string(files, path) ==
    IF path \in DOMAIN files THEN Ok(files[path]) ELSE [tag |-> "Err"]

\* ExitStatus::success taking every status for a success.
success_whatever(status) == TRUE

\* ExitStatus::success
success(status) == status = 0

\* Replacing the buffer by what is pushed.
push_str_replace(combined, repo_log) == repo_log

\* String::push_str
push_str(combined, repo_log) == combined \o repo_log

\* A child process: "none" before it is spawned, then "running", "eof"
\* when its stdin was closed, "exited" with its status and stderr.
NoChild == [state |-> "none", stdin |-> <<>>, status |-> 0, stderr |-> <<>>]
Spawned == [state |-> "running", stdin |-> <<>>, status |-> 0, stderr |-> <<>>]
Exited(child, status, stderr) ==
    [child EXCEPT !.state = "exited", !.status = status, !.stderr = stderr]

E_sort == <<"s", "o", "r", "t", "!">>
E_fmt == <<"f", "m", "t", "!">>

\* The function has returned.
Returned(st) == [st EXCEPT !.at = "returned"]

\* The child handles are dropped when the function returns: the stdin of
\* fmt, when still open, is closed.
Dropped(st) ==
    [st EXCEPT !.at = "returned",
               !.fmt.state = IF @ = "running" THEN "eof" ELSE @]

Merging == call.op = "combine_and_sort_logs"

\* qsv.rs, lines 25-30: one turn of the read loop.
read_gource_log ==
    /\ Merging /\ stage.at = "read" /\ stage.k < Len(repos)
    /\ \E io \in {"ok", "error"} :
          LET repo_log == IF io = "error" THEN [tag |-> "Err"]
                          ELSE read_to_string(fs.logs, gource_log_file(repos[stage.k + 1]))
          IN IF repo_log.tag = "Ok"
             THEN /\ stage' = [stage EXCEPT !.k = @ + 1,
                                            !.combined = push_str(@, repo_log.v)]
                  /\ UNCHANGED ret
             ELSE /\ stage' = Returned(stage)
                  /\ ret' = Failed("failed to read gource log file", None)
    /\ UNCHANGED <<pc, cli, catalog, cx, repos, idx, dirs, git, logs, result, call, fs>>

\* qsv.rs, lines 32-37: the sorted log of an earlier run is removed.
remove_old_sorted_log ==
    /\ Merging /\ stage.at = "read" /\ stage.k = Len(repos)
    /\ IF fs.sorted.tag = "Some"
       THEN \/ /\ fs' = [fs EXCEPT !.sorted = None]
               /\ stage' = [stage EXCEPT !.at = "spawn_sort"]
               /\ UNCHANGED ret
            \/ /\ stage' = Returned(stage)
               /\ ret' = Failed("failed to remove old sorted log file", None)
               /\ UNCHANGED fs
       ELSE /\ stage' = [stage EXCEPT !.at = "spawn_sort"]
            /\ UNCHANGED <<fs, ret>>
    /\ UNCHANGED <<pc, cli, catalog, cx, repos, idx, dirs, git, logs, result, call>>

\* qsv.rs, lines 39-57
spawn_sort ==
    /\ Merging /\ stage.at = "spawn_sort"
    /\ \/ /\ stage' = [stage EXCEPT !.sort = Spawned, !.at = "spawn_fmt"]
          /\ UNCHANGED ret
       \/ /\ stage' = Returned(stage)
          /\ ret' = Failed("failed to spawn sort command", None)
    /\ UNCHANGED <<pc, cli, catalog, cx, repos, idx, dirs, git, logs, result, call, fs>>

\* qsv.rs, lines 59-72
spawn_fmt ==
    /\ Merging /\ stage.at = "spawn_fmt"
    /\ \/ /\ stage' = [stage EXCEPT !.fmt = Spawned, !.at = "pipe"]
          /\ UNCHANGED ret
       \/ /\ stage' = Returned(stage)
          /\ ret' = Failed("failed to spawn fmt command", None)
    /\ UNCHANGED <<pc, cli, catalog, cx, repos, idx, dirs, git, logs, result, call, fs>>

\* qsv.rs, lines 74-86: the combined log is written to the stdin of sort
\* while the stdout of sort is copied to the stdin of fmt, until sort
\* closes its stdout.  Sort has then read its input and written the
\* sorted rows, or has failed; a failed sort may have stopped reading
\* (the write fails), and a fmt that died stops the copy.
pipe ==
    /\ Merging /\ stage.at = "pipe"
    /\ \/ /\ stage' = [stage EXCEPT
                           !.sort = Exited([@ EXCEPT !.stdin = stage.combined], 0, <<>>),
                           !.fmt.stdin = qsv_sort(stage.combined),
                           !.at = "wait_sort"]
          /\ UNCHANGED ret
       \/ /\ stage' = [stage EXCEPT !.sort = Exited(@, 1, E_sort), !.at = "wait_sort"]
          /\ UNCHANGED ret
       \/ /\ stage' = Dropped([stage EXCEPT !.sort = Exited(@, 1, E_sort)])
          /\ ret' = Failed("failed to write combined log to sort", None)
       \/ /\ stage' = Dropped([stage EXCEPT !.fmt = Exited(@, 1, E_fmt)])
          /\ ret' = Failed("failed to copy sort output to fmt input", None)
    /\ UNCHANGED <<pc, cli, catalog, cx, repos, idx, dirs, git, logs, result, call, fs>>

\* qsv.rs, lines 88-106: the status of sort is awaited, the stdin of fmt is
\* closed, and a nonzero status is returned with the stderr of sort.
wait_sort ==
    /\ Merging /\ stage.at = "wait_sort"
    /\ \/ /\ stage' = Dropped(stage)
          /\ ret' = Failed("failed to wait for sort to finish", None)
       \/ LET waited == [stage EXCEPT !.sort_status = Some(stage.sort.status),
                                      !.fmt.state = "eof"]
          IN IF ~success(stage.sort.status)
             THEN /\ stage' = Returned(waited)
                  /\ \/ ret' = Failed("Failed to sort combined log file",
                                       Some(stage.sort.stderr))
                     \/ ret' = Failed("failed to read sort stderr", None)
             ELSE /\ stage' = [waited EXCEPT !.at = "wait_fmt"]
                  /\ UNCHANGED ret
    /\ UNCHANGED <<pc, cli, catalog, cx, repos, idx, dirs, git, logs, result, call, fs>>

\* The fmt process: at the end of its input it writes the sorted log and
\* exits with status 0, or fails.
fmt_exits ==
    /\ Merging /\ stage.fmt.state = "eof"
    /\ \/ /\ stage' = [stage EXCEPT !.fmt = Exited(@, 0, <<>>)]
          /\ fs' = [fs EXCEPT !.sorted = Some(qsv_fmt(stage.fmt.stdin))]
       \/ /\ stage' = [stage EXCEPT !.fmt = Exited(@, 1, E_fmt)]
          /\ UNCHANGED fs
    /\ UNCHANGED <<pc, cli, catalog, cx, repos, idx, dirs, git, logs, result, call, ret>>

\* qsv.rs, lines 108-125: the status of fmt is awaited; a nonzero status is
\* returned with the stderr of fmt.
wait_fmt ==
    /\ Merging /\ stage.at = "wait_fmt" /\ stage.fmt.state = "exited"
    /\ \/ /\ stage' = Returned(stage)
          /\ ret' = Failed("failed to wait for fmt to finish", None)
       \/ /\ stage' = Returned([stage EXCEPT !.fmt_status = Some(stage.fmt.status)])
          /\ IF ~success(stage.fmt.status)
             THEN \/ ret' = Failed("Failed to format combined log file",
                                   Some(stage.fmt.stderr))
                  \/ ret' = Failed("failed to read fmt stderr", None)
             ELSE ret' = [tag |-> "Ok"]
    /\ UNCHANGED <<pc, cli, catalog, cx, repos, idx, dirs, git, logs, result, call, fs>>

(***************************************************************************)
(* gource.rs: the render stage, execute_gource, step by step.  With        *)
(* settings.video the frames gource writes are piped to ffmpeg; without,   *)
(* gource runs alone.  The two children run on their own: each writes to   *)
(* pipes that hold PipeCap pieces, and a write to a full pipe blocks until *)
(* the other end is read.                                                  *)
(***************************************************************************)
E_gource == <<"g", "o", "u", "r", "c", "e", "!">>
E_ffmpeg == <<"f", "f", "m", "p", "e", "g", "!">>

Rendering == call.op = "execute_gource"

\* drop(ffmpeg_stdin) leaving the handle as it is.
drop_forgotten(handle) == handle

\* gource.rs, line 144: drop(ffmpeg_stdin) closes the write end of the pipe.
drop(handle) == IF handle = "open" THEN "closed" ELSE handle

\* The stdin handle of ffmpeg is dropped when the function returns.
DroppedRender(st) ==
    [st EXCEPT !.at = "returned", !.ffmpeg_stdin = IF @ = "open" THEN "closed" ELSE @]

\* anyhow!("Failed to generate video: {}", stderr) without the stderr.
video_error_without_stderr(stderr) == Failed("Failed to generate video", None)

\* gource.rs, lines 152 and 167: anyhow!("Failed to generate video: {}", stderr)
video_error(stderr) == Failed("Failed to generate video", Some(stderr))

\* tokio::io::copy returning without having copied.
copy_done_at_once(st) == TRUE

\* gource.rs, lines 133-135: tokio::io::copy returns at the end of the
\* stdout of gource: gource has exited and the pipe is empty.
copy_done(st) == st.gource.state = "exited" /\ st.stdout_pipe = 0

\* gource.rs, lines 68-102
spawn_ffmpeg ==
    /\ Rendering /\ stage.at = "start" /\ call.video
    /\ \/ /\ stage' = [stage EXCEPT !.ffmpeg = Spawned, !.ffmpeg_stdin = "open",
                                    !.at = "spawn_gource"]
          /\ UNCHANGED ret
       \/ /\ stage' = Returned(stage)
          /\ ret' = Failed("failed to execute ffmpeg command", None)
    /\ UNCHANGED <<pc, cli, catalog, cx, repos, idx, dirs, git, logs, result, call, fs>>

\* gource.rs, lines 104-131; the four handles were asked for with
\* Stdio::piped(), so taking them does not fail.
spawn_gource ==
    /\ Rendering /\ stage.at = "spawn_gource"
    /\ \/ /\ stage' = [stage EXCEPT !.gource = Spawned, !.at = "copy"]
          /\ UNCHANGED ret
       \/ /\ stage' = DroppedRender(stage)
          /\ ret' = Failed("failed to execute gource command", None)
    /\ UNCHANGED <<pc, cli, catalog, cx, repos, idx, dirs, git, logs, result, call, fs>>

\* The gource process writes a frame to its stdout; the write blocks
\* while the pipe is full.
gource_writes_frame ==
    /\ Rendering /\ stage.at /= "returned" /\ stage.gource.state = "running"
    /\ stage.frames > 0 /\ stage.stdout_pipe < PipeCap
    /\ stage' = [stage EXCEPT !.frames = @ - 1, !.stdout_pipe = @ + 1]
    /\ UNCHANGED <<pc, cli, catalog, cx, repos, idx, dirs, git, logs, result, call, ret, fs>>

\* The gource process writes to its stderr; the write blocks while the
\* pipe is full, and nothing reads the pipe before gource.rs line 148.
gource_writes_diag ==
    /\ Rendering /\ stage.at /= "returned" /\ stage.gource.state = "running"
    /\ stage.gource_diag > 0 /\ stage.gource_stderr_pipe < PipeCap
    /\ stage' = [stage EXCEPT !.gource_diag = @ - 1, !.gource_stderr_pipe = @ + 1]
    /\ UNCHANGED <<pc, cli, catalog, cx, repos, idx, dirs, git, logs, result, call, ret, fs>>

\* The gource process exits, with status 0 or not, when it has written
\* what it had to write.
gource_exits ==
    /\ Rendering /\ stage.at /= "returned" /\ stage.gource.state = "running"
    /\ stage.frames = 0 /\ stage.gource_diag = 0
    /\ \E status \in {0, 1} :
          stage' = [stage EXCEPT
                      !.gource = Exited(@, status, IF status = 0 THEN <<>> ELSE E_gource)]
    /\ UNCHANGED <<pc, cli, catalog, cx, repos, idx, dirs, git, logs, result, call, ret, fs>>

\* The ffmpeg process reads a frame from its stdin.
ffmpeg_reads_frame ==
    /\ Rendering /\ stage.ffmpeg.state = "running"
    /\ stage.stdin_pipe > 0
    /\ stage' = [stage EXCEPT !.stdin_pipe = @ - 1]
    /\ UNCHANGED <<pc, cli, catalog, cx, repos, idx, dirs, git, logs, result, call, ret, fs>>

\* The ffmpeg process writes to its stderr; the write blocks while the
\* pipe is full, and nothing reads the pipe before gource.rs line 163.
ffmpeg_writes_diag ==
    /\ Rendering /\ stage.at /= "returned" /\ stage.ffmpeg.state = "running"
    /\ stage.ffmpeg_diag > 0 /\ stage.ffmpeg_stderr_pipe < PipeCap
    /\ stage' = [stage EXCEPT !.ffmpeg_diag = @ - 1, !.ffmpeg_stderr_pipe = @ + 1]
    /\ UNCHANGED <<pc, cli, catalog, cx, repos, idx, dirs, git, logs, result, call, ret, fs>>

\* The ffmpeg process exits when it has written what it had to write to
\* its stderr: at the end of its input, which it sees when the pipe is
\* empty and its write end closed, with status 0 or not; on a frame it
\* gives up on, with a nonzero status.  It waits while its input is empty
\* and open.
ffmpeg_exits ==
    /\ Rendering /\ stage.ffmpeg.state = "running"
    /\ stage.ffmpeg_diag = 0
    /\ \E status \in {0, 1} :
          /\ \/ stage.ffmpeg_stdin = "closed" /\ stage.stdin_pipe = 0
             \/ status /= 0 /\ stage.stdin_pipe > 0
          /\ stage' = [stage EXCEPT
                         !.ffmpeg = Exited(@, status, IF status = 0 THEN <<>> ELSE E_ffmpeg)]
    /\ UNCHANGED <<pc, cli, catalog, cx, repos, idx, dirs, git, logs, result, call, ret, fs>>

\* gource.rs, lines 133-135: one turn of tokio::io::copy: a frame read
\* from the stdout of gource is written to the stdin of ffmpeg; the write
\* blocks while that pipe is full and fails when ffmpeg has exited.
copy_frame ==
    /\ Rendering /\ stage.at = "copy" /\ stage.stdout_pipe > 0
    /\ IF stage.ffmpeg.state = "exited"
       THEN /\ stage' = DroppedRender(stage)
            /\ ret' = Failed("failed to copy gource output to ffmpeg input", None)
       ELSE /\ stage.stdin_pipe < PipeCap
            /\ stage' = [stage EXCEPT !.stdout_pipe = @ - 1, !.stdin_pipe = @ + 1]
            /\ UNCHANGED ret
    /\ UNCHANGED <<pc, cli, catalog, cx, repos, idx, dirs, git, logs, result, call, fs>>

\* gource.rs, lines 133-138: the copy is over and the wait for gource begins.
copy_returns ==
    /\ Rendering /\ stage.at = "copy" /\ copy_done(stage)
    /\ stage' = [stage EXCEPT !.at = "wait_gource"]
    /\ UNCHANGED <<pc, cli, catalog, cx, repos, idx, dirs, git, logs, result, call, ret, fs>>

\* gource.rs, lines 137-153: the wait returns when gource has exited; the
\* stdin of ffmpeg is closed, and a nonzero status is returned with the
\* stderr of gource.
wait_gource ==
    /\ Rendering /\ stage.at = "wait_gource" /\ stage.gource.state = "exited"
    /\ \/ /\ stage' = DroppedRender(stage)
          /\ ret' = Failed("failed to wait for gource to finish", None)
       \/ LET waited == [stage EXCEPT !.gource_status = Some(stage.gource.status),
                                      !.ffmpeg_stdin = drop(@)]
          IN IF ~success(stage.gource.status)
             THEN /\ stage' = Returned(waited)
                  /\ \/ ret' = video_error(stage.gource.stderr)
                     \/ ret' = Failed("failed to read gource stderr", None)
             ELSE /\ stage' = [waited EXCEPT !.at = "wait_ffmpeg"]
                  /\ UNCHANGED ret
    /\ UNCHANGED <<pc, cli, catalog, cx, repos, idx, dirs, git, logs, result, call, fs>>

\* gource.rs, lines 155-168 and 183: the wait returns when ffmpeg has
\* exited; a nonzero status is returned with the stderr of ffmpeg.
wait_ffmpeg ==
    /\ Rendering /\ stage.at = "wait_ffmpeg" /\ stage.ffmpeg.state = "exited"
    /\ \/ /\ stage' = Returned(stage)
          /\ ret' = Failed("failed to wait for ffmpeg to finish", None)
       \/ /\ stage' = Returned([stage EXCEPT !.ffmpeg_status = Some(stage.ffmpeg.status)])
          /\ IF ~success(stage.ffmpeg.status)
             THEN \/ ret' = video_error(stage.ffmpeg.stderr)
                  \/ ret' = Failed("failed to read ffmpeg stderr", None)
             ELSE ret' = [tag |-> "Ok"]
    /\ UNCHANGED <<pc, cli, catalog, cx, repos, idx, dirs, git, logs, result, call, fs>>

\* gource.rs, lines 169-183: without settings.video gource is run to its
\* end with Command::status; the status it returns is bound to `_`.
run_gource ==
    /\ Rendering /\ stage.at = "start" /\ ~call.video
    /\ \/ /\ \E status \in {0, 1} :
                stage' = Returned([stage EXCEPT
                            !.gource = Exited(Spawned, status,
                                              IF status = 0 THEN <<>> ELSE E_gource)])
          /\ ret' = [tag |-> "Ok"]
       \/ /\ stage' = Returned(stage)
          /\ ret' = Failed("failed to execute gource command", None)
    /\ UNCHANGED <<pc, cli, catalog, cx, repos, idx, dirs, git, logs, result, call, fs>>

(***************************************************************************)
(* gource.rs: generate_gource_log, the text it writes.  A character is a   *)
(* one-character string; "e-acute" stands for the character U+00E9 and     *)
(* "grave" for the character U+0060.                                       *)
(***************************************************************************)
Generating == call.op = "generate_gource_log"

\* gource.rs, line 14: DEQUOTE_REGEX, the class ['"`]
Quotes == {"'", "\"", "grave"}

\* The characters of the name of a capture group in a replacement
\* string, [0-9A-Za-z_], among those of the model.
WordChars == {"1", "2", "M", "a", "e", "o", "r", "u", "v"}

\* Regex::replace_all with a replacement string: $$ is a '$'; '$'
\* followed by the longest run of word characters is the capture group of
\* that number, empty when there is no such group; another '$' is itself.
RECURSIVE expand(_, _, _)
expand(replacement, g1, g2) ==
    LET n == Len(replacement)
        word == {k \in 1..(n - 1) : \A j \in 2..(k + 1) : replacement[j] \in WordChars}
        w == Cardinality(word)
        ref == SubSeq(replacement, 2, w + 1)
    IN IF replacement = <<>> THEN <<>>
       ELSE IF Head(replacement) /= "$"
       THEN <<Head(replacement)>> \o expand(Tail(replacement), g1, g2)
       ELSE IF n >= 2 /\ replacement[2] = "$"
       THEN <<"$">> \o expand(SubSeq(replacement, 3, n), g1, g2)
       ELSE IF w = 0
       THEN <<"$">> \o expand(Tail(replacement), g1, g2)
       ELSE (IF ref = <<"1">> THEN g1 ELSE IF ref = <<"2">> THEN g2 ELSE <<>>)
            \o expand(SubSeq(replacement, w + 2, n), g1, g2)

\* gource.rs, line 13: REPLACE_REGEX, (.*\|.{1}\|)(.*), on a line: the
\* first .* is greedy, so the first group ends at the last '|' that
\* stands two characters after a '|'; the second group is the rest of
\* the line.  A line without such a '|' is left as it is.
replace_line(line, replacement) ==
    LET ends == {k \in 3..Len(line) : line[k] = "|" /\ line[k - 2] = "|"}
        last == CHOOSE k \in ends : \A j \in ends : j <= k
    IN IF ends = {} THEN line
       ELSE expand(replacement, SubSeq(line, 1, last), SubSeq(line, last + 1, Len(line)))

\* gource.rs, line 43: REPLACE_REGEX.replace_all; '.' does not match the
\* end of a line, so every line is matched on its own.
RECURSIVE replace_all(_, _)
replace_all(text, replacement) ==
    LET ends == {k \in 1..Len(text) : text[k] = "\n"}
        first == CHOOSE k \in ends : \A j \in ends : k <= j
    IN IF ends = {} THEN replace_line(text, replacement)
       ELSE replace_line(SubSeq(text, 1, first - 1), replacement) \o <<"\n">>
            \o replace_all(SubSeq(text, first + 1, Len(text)), replacement)

\* gource.rs, line 45: diacritics::remove_diacritics
remove_diacritics(text) ==
    [i \in DOMAIN text |-> IF text[i] = "e-acute" THEN "e" ELSE text[i]]

\* DEQUOTE_REGEX.replace, which replaces the first match only.
dequote_first(text) ==
    LET at == {k \in 1..Len(text) : text[k] \in Quotes}
        first == CHOOSE k \in at : \A j \in at : k <= j
    IN IF at = {} THEN text
       ELSE SubSeq(text, 1, first - 1) \o SubSeq(text, first + 1, Len(text))

\* gource.rs, line 47: DEQUOTE_REGEX.replace_all(&gource_log, "")
dequote(text) == SelectSeq(text, LAMBDA c : c \notin Quotes)

\* gource.rs, lines 39-47: the text written, from the stdout of gource
\* and repo.name.
gource_log(stdout, name) ==
    dequote(remove_diacritics(
        replace_all(stdout, <<"$", "1", "/">> \o name \o <<"$", "2">>)))

\* The output of gource taken for good whatever the run came to.
extractor_result_ignored(run, name) == [tag |-> "Ok"]

\* gource.rs, lines 26-37: what running gource came to: None when it
\* could not be run, its exit status otherwise.
extractor_result(run, name) ==
    IF run = None THEN Failed("failed to execute gource command", None)
    ELSE IF ~success(run.v) THEN Failed("Failed to generate gource log for repo", Some(name))
    ELSE [tag |-> "Ok"]

\* gource.rs, lines 16-63: gource is run once; when the run failed the
\* error is returned; otherwise its output is rewritten, and the log file
\* of the repository is opened and written; an open that fails leaves the
\* file as it was, a write that fails leaves the start of the text in it.
call_generate_gource_log ==
    /\ Generating /\ stage.at = "start"
    /\ LET output == extractor_result(call.gource, call.name)
           text == gource_log(call.stdout, call.name)
           ran == [stage EXCEPT !.at = "returned", !.runs = @ + 1]
           opened == [ran EXCEPT !.opens = @ + 1]
       IN IF output.tag = "Err"
          THEN stage' = ran /\ ret' = output
          ELSE \/ /\ stage' = opened
                  /\ ret' = Failed("failed to open gource log file", None)
               \/ \E k \in 0..(Len(text) - 1) :
                     /\ stage' = [opened EXCEPT !.file = Some(SubSeq(text, 1, k))]
                     /\ ret' = Failed("failed to write gource log file", None)
               \/ /\ stage' = [opened EXCEPT !.file = Some(text)]
                  /\ ret' = [tag |-> "Ok"]
    /\ UNCHANGED <<pc, cli, catalog, cx, repos, idx, dirs, git, logs, result, call, fs>>

(***************************************************************************)
(* check.rs: check_for_dependencies, probe by probe.  The outcome of       *)
(* running each tool is an input of the call.                              *)
(***************************************************************************)
Checking == call.op = "check_for_dependencies"

\* check.rs, lines 22-25: the probes, in the order of the vec!.
Probes ==
    << [bin |-> "git", arg |-> "--version", err |-> "GitNotFound"],
       [bin |-> "gource", arg |-> "-h", err |-> "GourceNotFound"],
       [bin |-> "ffmpeg", arg |-> "-version", err |-> "FfmpegNotFound"],
       [bin |-> "qsv", arg |-> "--version", err |-> "QsvNotFound"] >>

\* What running a tool comes to: it ran and exited with status 0 or with
\* another status, it was not found, or running it failed otherwise.
ProbeOutcomes == {"success", "nonzero", "NotFound", "io_error"}

\* check.rs, lines 36-50
check_for_cmd(probe, outcome) ==
    CASE outcome = "NotFound" -> [tag |-> "Err", e |-> probe.err]
      [] outcome = "io_error" -> [tag |-> "Err", e |-> "IoError"]
      [] outcome = "nonzero" -> [tag |-> "Err", e |-> "NonzeroExitCode"]
      [] OTHER -> [tag |-> "Ok"]

\* .filter_map(Result::err) keeping the first error only.
RECURSIVE filter_map_err_first(_)
filter_map_err_first(results) ==
    IF results = <<>> THEN <<>>
    ELSE IF Head(results).tag = "Err" THEN <<Head(results).e>>
    ELSE filter_map_err_first(Tail(results))

\* check.rs, lines 27-29: .drain(..).filter_map(Result::err).collect()
RECURSIVE filter_map_err(_)
filter_map_err(results) ==
    IF results = <<>> THEN <<>>
    ELSE IF Head(results).tag = "Err"
         THEN <<Head(results).e>> \o filter_map_err(Tail(results))
         ELSE filter_map_err(Tail(results))

\* check.rs, lines 21-26: the next element of the vec! is evaluated: the
\* tool is run and the result of the probe kept.
call_check_for_cmd ==
    /\ Checking /\ stage.at = "probe" /\ Len(stage.results) < Len(Probes)
    /\ LET i == Len(stage.results) + 1
       IN stage' = [stage EXCEPT
                      !.ran = Append(@, Probes[i].bin),
                      !.results = Append(@, check_for_cmd(Probes[i], call.outcomes[i]))]
    /\ UNCHANGED <<pc, cli, catalog, cx, repos, idx, dirs, git, logs, result, call, ret, fs>>

\* check.rs, lines 27-33: the errors are collected and returned when
\* there is one.
check_for_dependencies ==
    /\ Checking /\ stage.at = "probe" /\ Len(stage.results) = Len(Probes)
    /\ stage' = Returned(stage)
    /\ LET errs == filter_map_err(stage.results)
       IN ret' = IF errs /= <<>> THEN [tag |-> "Err", errs |-> errs] ELSE [tag |-> "Ok"]
    /\ UNCHANGED <<pc, cli, catalog, cx, repos, idx, dirs, git, logs, result, call, fs>>

(***************************************************************************)
(* fetch_repo, call after call for one repository, in its two variants:    *)
(* gh.rs asks Path::try_exists and returns its error; github.rs asks       *)
(* Path::exists.  stage.cloned records that a clone has succeeded.         *)
(***************************************************************************)
Fetching == call.op = "fetch_repo"

\* gh.rs, lines 78-105, and github.rs, lines 102-145: one call.
call_fetch_repo ==
    /\ Fetching /\ stage.calls < MaxFetches
    /\ \/ /\ call.variant = "gh"
          /\ ret' = Failed("try_exists", None)
          /\ stage' = [stage EXCEPT !.calls = @ + 1]
          /\ UNCHANGED <<git, dirs>>
       \/ LET cmd == git_command(call.repo, dirs) IN
          /\ git' = Append(git, cmd)
          /\ \/ /\ dirs' = dirs \cup {cmd.dir}
                /\ ret' = [tag |-> "Ok"]
                /\ stage' = [stage EXCEPT !.calls = @ + 1,
                                          !.cloned = @ \/ cmd.cmd = "clone"]
             \/ /\ ret' = Failed("failed to execute git command", None)
                /\ stage' = [stage EXCEPT !.calls = @ + 1]
                /\ UNCHANGED dirs
             \/ /\ ret' = Failed("git clone/pull failed", None)
                /\ stage' = [stage EXCEPT !.calls = @ + 1]
                /\ UNCHANGED dirs
    /\ UNCHANGED <<pc, cli, catalog, cx, repos, idx, logs, result, call, fs>>

(***************************************************************************)
(* The stage functions, call by call.                                      *)
(***************************************************************************)
\* The lines of the gource logs: a timestamp and a path.  "12" sorts
\* before "2", and two lines have the timestamp "1".
LogLines ==
    {<<"1", "|", "x">>, <<"2", "|", "x">>, <<"1", "|", "y">>, <<"1", "2", "|", "x">>}

\* A gource log as generate_gource_log writes it: every line ends in "\n".
RECURSIVE log_text(_)
log_text(ls) ==
    IF ls = <<>> THEN <<>> ELSE Head(ls) \o <<"\n">> \o log_text(Tail(ls))

\* The `repos` the merge stage is given.
MergeCatalogs == {<<>>, <<R1>>, <<R2>>, <<R1, R2>>, <<R2, R1>>}

\* The sorted log an earlier run left.
OldSorted == log_text(<<<<"1", "|", "o">>>>)

InitStages ==
    /\ pc = "idle"
    /\ cli = None
    /\ catalog = <<>>
    /\ cx = None
    /\ idx = 0
    /\ git = <<>>
    /\ result = Running
    /\ ret = Pending
    /\ \/ \E variant \in {"gh", "github"}, repo \in CatalogPool, present \in BOOLEAN :
             /\ repos = <<>>
             /\ logs = {}
             /\ fs = NoFiles
             /\ dirs = IF present THEN {Repo_full_name_path_friendly(repo)} ELSE {}
             /\ call = [op |-> "fetch_repo", variant |-> variant, repo |-> repo]
             /\ stage = [fn |-> "fetch_repo", calls |-> 0, cloned |-> FALSE]
       \/ \E user \in {<<"u">>, <<"u", "v">>, <<"e-acute">>},
             path \in SeqsUpTo({"/", "a", "|", "'"}, MaxPath),
             more \in {<<>>, <<"grave", "|", "a", "|", "\"", "\n">>},
             name \in {<<"r">>, <<"r", "'">>, <<"$", "2">>},
             old \in {None, Some(<<"o">>)},
             gource \in {None, Some(0), Some(1)} :
             /\ repos = <<>>
             /\ logs = {}
             /\ dirs = {}
             /\ fs = NoFiles
             /\ call = [op |-> "generate_gource_log", name |-> name,
                        gource |-> gource, old |-> old,
                        user |-> user, path |-> path,
                        stdout |-> <<"1", "|">> \o user \o <<"|", "M", "|">> \o path
                                   \o <<"\n">> \o more]
             /\ stage = [fn |-> "generate_gource_log", at |-> "start", file |-> old,
                         runs |-> 0, opens |-> 0]
       \/ \E outcomes \in [1..Len(Probes) -> ProbeOutcomes] :
             /\ repos = <<>>
             /\ logs = {}
             /\ dirs = {}
             /\ fs = NoFiles
             /\ call = [op |-> "check_for_dependencies", outcomes |-> outcomes]
             /\ stage = [fn |-> "check_for_dependencies", at |-> "probe",
                         ran |-> <<>>, results |-> <<>>]
       \/ \E video \in BOOLEAN, frames \in 0..MaxFrames,
             gource_diag \in 0..MaxDiag, ffmpeg_diag \in 0..MaxDiag :
             /\ repos = <<>>
             /\ logs = {}
             /\ dirs = {}
             /\ fs = NoFiles
             /\ call = [op |-> "execute_gource", video |-> video, frames |-> frames,
                        gource_diag |-> gource_diag, ffmpeg_diag |-> ffmpeg_diag]
             /\ stage = [fn |-> "execute_gource", at |-> "start",
                         gource |-> NoChild, ffmpeg |-> NoChild,
                         gource_status |-> None, ffmpeg_status |-> None,
                         ffmpeg_stdin |-> "none",
                         frames |-> frames, gource_diag |-> gource_diag,
                         ffmpeg_diag |-> ffmpeg_diag,
                         stdout_pipe |-> 0, stdin_pipe |-> 0,
                         gource_stderr_pipe |-> 0, ffmpeg_stderr_pipe |-> 0]
       \/ \E rs \in MergeCatalogs, ls \in SeqsUpTo(LogLines, MaxLogLines),
          present \in SUBSET {gource_log_file(R1), gource_log_file(R2)}, old \in BOOLEAN :
          \E j \in 0..Len(ls) :
             LET written == [f \in {gource_log_file(R1), gource_log_file(R2)} |->
                                IF f = gource_log_file(R1)
                                THEN log_text(SubSeq(ls, 1, j))
                                ELSE log_text(SubSeq(ls, j + 1, Len(ls)))]
                 files == [logs |-> [f \in present |-> written[f]],
                           sorted |-> IF old THEN Some(OldSorted) ELSE None]
             IN /\ repos = rs
                /\ dirs = {}
                /\ logs = present
                /\ fs = files
                /\ call = [op |-> "combine_and_sort_logs", files |-> files]
                /\ stage = [fn |-> "combine_and_sort_logs", at |-> "read", k |-> 0,
                            combined |-> <<>>, sort |-> NoChild, fmt |-> NoChild,
                            sort_status |-> None, fmt_status |-> None]

NextStages ==
    \/ call_fetch_repo
    \/ call_generate_gource_log
    \/ call_check_for_cmd
    \/ check_for_dependencies
    \/ read_gource_log
    \/ remove_old_sorted_log
    \/ spawn_sort
    \/ spawn_fmt
    \/ pipe
    \/ wait_sort
    \/ fmt_exits
    \/ wait_fmt
    \/ spawn_ffmpeg
    \/ spawn_gource
    \/ gource_writes_frame
    \/ gource_writes_diag
    \/ gource_exits
    \/ ffmpeg_reads_frame
    \/ ffmpeg_writes_diag
    \/ ffmpeg_exits
    \/ copy_frame
    \/ copy_returns
    \/ wait_gource
    \/ wait_ffmpeg
    \/ run_gource

SpecStages == InitStages /\ [][NextStages]_vars

(***************************************************************************)
(* Properties of fetch_repo.                                               *)
(***************************************************************************)
\* A call of fetch_repo was made in this step.
Fetched == Fetching /\ stage'.calls = stage.calls + 1

\* The call issued one git invocation, a clone when the working copy was
\* absent and a pull when it was present.
OneInvocation ==
    /\ Len(git') = Len(git) + 1
    /\ SubSeq(git', 1, Len(git)) = git
    /\ LET c == git'[Len(git')] IN
       /\ c.dir = Repo_full_name_path_friendly(call.repo)
       /\ c.cmd = "clone" <=> c.dir \notin dirs
       /\ c.cmd = "pull" <=> c.dir \in dirs

\* After a clone that succeeded, what the call issues is a pull.
PullsAfterClone ==
    stage.cloned => \A i \in (Len(git) + 1)..Len(git') : git'[i].cmd = "pull"

MergeReturned == Merging /\ stage.at = "returned"

\* The logs of the first n repositories, as the files held them when the
\* stage was called, one after the other.
RECURSIVE LogsOf(_, _, _)
LogsOf(files, rs, n) ==
    IF n = 0 THEN <<>>
    ELSE LogsOf(files, rs, n - 1) \o files[gource_log_file(rs[n])]

Missing(i) == gource_log_file(repos[i]) \notin DOMAIN call.files.logs

ReadFailed == ret.tag = "Err" /\ ret.msg = "failed to read gource log file"

\* C16: the merge stage reads the log of every repository it is given, in
\* the order of `repos`; a child process is spawned only after all of them
\* were read; when a log is missing the stage returns the read error, and
\* after a read error no process was spawned and the sorted log is as it
\* was before the call.
C16_ReadAllOrFail ==
    Merging =>
        /\ \A i \in 1..stage.k : ~Missing(i)
        /\ stage.combined = LogsOf(call.files.logs, repos, stage.k)
        /\ (stage.sort.state /= "none" \/ stage.fmt.state /= "none")
              => stage.k = Len(repos)
        /\ (stage.at = "returned" /\ \E i \in DOMAIN repos : Missing(i)) => ReadFailed
        /\ ReadFailed =>
              /\ stage.sort.state = "none" /\ stage.fmt.state = "none"
              /\ fs.sorted = call.files.sorted

\* C16 happens: the log of the first of two repositories was read, that
\* of the second is missing, and the stage returned the read error with
\* the sorted log of an earlier run still in place.
C16_Witness ==
    /\ MergeReturned /\ ReadFailed
    /\ Len(repos) = 2 /\ stage.k = 1 /\ Missing(2)
    /\ stage.combined /= <<>>
    /\ fs.sorted = Some(OldSorted)

\* The timestamp of a log line: what precedes its first '|'.
Key(line) == SubSeq(line, 1, find(line, "|") - 1)

NonDecreasing(ls) == \A i \in 1..(Len(ls) - 1) : bytes_le(Key(ls[i]), Key(ls[i + 1]))

\* The lines of key k, in the order they have in ls.
OfKey(ls, k) == LET has_key(l) == Key(l) = k IN SelectSeq(ls, has_key)

\* C17: after a successful merge the sorted log holds exactly the lines of
\* the logs that were merged, each as often as the logs hold it, in
\* non-decreasing order of the first field, the lines of equal first field
\* in the order of their concatenation; when the concatenation is already
\* in that order the sorted log is the concatenation.
C17_SortedLog ==
    (Merging /\ ret.tag = "Ok") =>
        /\ fs.sorted.tag = "Some"
        /\ LET given == lines(LogsOf(call.files.logs, repos, Len(repos)))
               sorted == lines(fs.sorted.v)
           IN /\ fs.sorted.v = log_text(sorted)
              /\ Len(sorted) = Len(given)
              /\ NonDecreasing(sorted)
              /\ \A i \in DOMAIN given :
                    OfKey(sorted, Key(given[i])) = OfKey(given, Key(given[i]))
              /\ NonDecreasing(given) => sorted = given

\* C17 happens: two logs were merged, a line of the second log went before
\* a line of the first, and two lines of equal timestamp, one of each log,
\* kept their order.
C17_Witness ==
    /\ Merging /\ ret.tag = "Ok"
    /\ Len(repos) = 2
    /\ call.files.logs[gource_log_file(repos[1])] = log_text(<<<<"2", "|", "x">>, <<"1", "|", "y">>>>)
    /\ call.files.logs[gource_log_file(repos[2])] = log_text(<<<<"1", "|", "x">>>>)
    /\ fs.sorted = Some(log_text(<<<<"1", "|", "y">>, <<"1", "|", "x">>, <<"2", "|", "x">>>>))

SortFailed == stage.sort_status.tag = "Some" /\ stage.sort_status.v /= 0

RenderReturned == Rendering /\ stage.at = "returned"

GourceFailed == stage.gource_status.tag = "Some" /\ stage.gource_status.v /= 0

C20_RenderOnlyStatus ==
    (RenderReturned /\ ~call.video) =>
        /\ ret.tag = "Ok" => (stage.gource.state = "exited" /\ stage.gource.status = 0)
        /\ (stage.gource.state = "exited" /\ stage.gource.status /= 0) => ret.tag = "Err"

\* The wait for the exit status of ffmpeg has been reached.
WaitsForFfmpeg ==
    Rendering /\ call.video /\
        (stage.at = "wait_ffmpeg" \/ stage.ffmpeg_status.tag = "Some")

\* C21: with settings.video, whenever execute_gource waits for the exit
\* status of ffmpeg, gource has terminated and its status has been
\* awaited, and the stdin of ffmpeg is closed: the function never waits
\* for ffmpeg while holding its input open.
C21_StdinClosedBeforeWait ==
    WaitsForFfmpeg =>
        /\ stage.gource.state = "exited"
        /\ stage.gource_status = Some(0)
        /\ stage.ffmpeg_stdin = "closed"

\* C21 happens: frames were copied, and execute_gource waits for ffmpeg,
\* which still runs and sees the end of its input.
C21_Witness ==
    /\ Rendering /\ call.video /\ call.frames > 0
    /\ stage.at = "wait_ffmpeg"
    /\ stage.ffmpeg.state = "running"
    /\ stage.ffmpeg_stdin = "closed"

\* A child is blocked: it has diagnostic output left to write and its
\* stderr pipe is full.
BlockedOnStderr(child, left, filled) ==
    child.state = "running" /\ left > 0 /\ filled = PipeCap

\* C22: with settings.video, a child that has more diagnostic output to
\* write than its stderr pipe holds is never blocked for ever: as long as
\* execute_gource has not returned, it or one of the children can take a
\* step.
C22_StderrDrained ==
    /\ Rendering /\ call.video /\ stage.at /= "returned"
    /\ \/ BlockedOnStderr(stage.gource, stage.gource_diag, stage.gource_stderr_pipe)
       \/ BlockedOnStderr(stage.ffmpeg, stage.ffmpeg_diag, stage.ffmpeg_stderr_pipe)
    => ENABLED NextStages

\* gource is blocked on its stdout: it has a frame left to write and the
\* pipe is full.
BlockedOnStdout ==
    stage.gource.state = "running" /\ stage.frames > 0 /\ stage.stdout_pipe = PipeCap

Checked == Checking /\ stage.at = "returned"

\* The probes that failed.
FailedProbes == {i \in 1..Len(Probes) : call.outcomes[i] /= "success"}

\* The k-th failed probe, in the order of the probes.
NthFailed(k) ==
    CHOOSE i \in FailedProbes : Cardinality({j \in FailedProbes : j <= i}) = k

\* The error of a failed probe: the not-found error of its own tool when
\* the tool was not found.
ErrorOf(i) ==
    IF call.outcomes[i] = "NotFound"
    THEN <<"GitNotFound", "GourceNotFound", "FfmpegNotFound", "QsvNotFound">>[i]
    ELSE IF call.outcomes[i] = "io_error" THEN "IoError" ELSE "NonzeroExitCode"

\* C23: check_for_dependencies runs git, gource, ffmpeg and qsv, each
\* once and in this order, whatever the outcome of the earlier ones; it
\* returns Ok exactly when every probe succeeded, and otherwise the list
\* of one error for each failed probe, in the order of the probes.
C23_AllProbes ==
    Checked =>
        /\ stage.ran = <<"git", "gource", "ffmpeg", "qsv">>
        /\ ret.tag = "Ok" <=> FailedProbes = {}
        /\ ret.tag \in {"Ok", "Err"}
        /\ ret.tag = "Err" =>
              /\ Len(ret.errs) = Cardinality(FailedProbes)
              /\ \A k \in 1..Len(ret.errs) : ret.errs[k] = ErrorOf(NthFailed(k))

\* C23 happens: git and ffmpeg were not found, gource and qsv ran, and
\* the two errors were returned.
C23_Witness ==
    /\ Checked
    /\ call.outcomes = <<"NotFound", "success", "NotFound", "success">>
    /\ ret = [tag |-> "Err", errs |-> <<"GitNotFound", "FfmpegNotFound">>]

(***************************************************************************)
(* Properties of the run of main: what a failure leaves undone.            *)
(***************************************************************************)
\* A rule source of the command line does not parse.
BadRules ==
    \/ cli.include_file.tag = "Some" /\ RuleSet_from_str(cli.include_file.v).tag = "Err"
    \/ cli.include /= <<>> /\ RuleSet_from_str(join(cli.include)).tag = "Err"

\* C24: when the includes file or the inline includes do not parse, the
\* run ends with an error in Context::from_cli: the catalog is never
\* requested, and no clone, pull, log generation, merge or render is
\* started.
C24_ParseErrorFirst ==
    BadRules =>
        /\ pc \in {"from_cli", "exit"}
        /\ pc = "exit" => result.tag = "Err"
        /\ cx = None /\ repos = <<>>
        /\ git = <<>> /\ logs = {}
        /\ fs = NoFiles /\ stage = Idle

\* C24 happens: the inline includes did not parse and the run has ended,
\* with a catalog that was there to be requested.
C24_Witness ==
    /\ BadRules /\ pc = "exit" /\ catalog /= <<>>
    /\ result.tag = "Err" /\ result.msg = "failed to parse command line includes"

\* The stages of main in their order: a step leaves the stage it is in
\* for the same stage, for the next one, or for the end of the run.
StageOrder ==
    <<"from_cli", "list_repos", "filter", "clone", "gource_logs", "combine", "video", "exit">>

StageIndex(p) == CHOOSE i \in DOMAIN StageOrder : StageOrder[i] = p

\* The logs of the repositories the log loop has handled.
LogsOfHandled(i) == {Repo_full_name_path_friendly(repos[k]) : k \in 1..i}

\* C25: with cx.skip_clone no clone and no pull is issued, and the stages
\* that follow run as without it and in the same order: the log of every
\* repository of the filtered catalog is generated, then the merge stage
\* runs, then the render stage; a stage is left for the end of the run
\* only with an error or after the render stage.
C25_SkipClone ==
    [][(cx.tag = "Some" /\ cx.v.skip_clone) =>
          /\ git = <<>> /\ git' = <<>>
          /\ dirs' = dirs
          /\ \/ pc' = pc
             \/ StageIndex(pc') = StageIndex(pc) + 1
             \/ pc' = "exit" /\ result'.tag = "Err"
          /\ pc' \in {"combine", "video"} =>
                /\ repos' = filtered(cx.v.includes, catalog)
                /\ \A i \in DOMAIN repos' : Repo_full_name_path_friendly(repos'[i]) \in logs'
          /\ (pc' = "exit" /\ result'.tag = "Ok") => pc = "video"]_vars

\* C25 happens: with cx.skip_clone the run ended well over two
\* repositories, without a clone or a pull.
C25_Witness ==
    /\ cx.tag = "Some" /\ cx.v.skip_clone
    /\ pc = "exit" /\ result.tag = "Ok"
    /\ Len(repos) = 2 /\ Cardinality(logs) = 2
    /\ git = <<>>

\* C26: once a stage has returned an error the run is over and no stage
\* can start: after a failure of the merge stage the render stage is
\* never started.
C26_FailStop ==
    /\ result.tag = "Err" => (pc = "exit" /\ ~ENABLED Next)
    /\ pc \in {"video"} => result = Running
    /\ result.tag = "Ok" => pc = "exit"

\* C26 happens: the merge stage failed over a catalog that was not empty,
\* and the run is over.
C26_Witness ==
    /\ result = Failed("failed to combine and sort logs", None)
    /\ pc = "exit"
    /\ repos /= <<>>

(***************************************************************************)
(* Properties of Entry::matches.                                           *)
(***************************************************************************)
FullNameMatched ==
    call.op = "Entry::matches" /\ call.self.selector = "FullName" /\ ret.tag = "Some"

\* C28: an entry of selector FullName matches a repository exactly when
\* its value is the full_name of the catalog record, when the record has
\* one, and otherwise exactly when its value is the login of the owner,
\* '/', and the name.
C28_FullName ==
    FullNameMatched =>
        /\ call.repo.full_name.tag = "Some" =>
              (ret.v <=> call.self.value = call.repo.full_name.v)
        /\ call.repo.full_name.tag = "None" =>
              (ret.v <=> call.self.value =
                            call.repo.owner.login \o <<"/">> \o call.repo.name)

\* C28 happens: the record of a/s has no full_name, and full_name:a/s
\* matches it.
C28_Witness ==
    /\ FullNameMatched
    /\ call.repo.full_name = None
    /\ call.self.value = A \o <<"/">> \o S
    /\ ret.v = TRUE

(***************************************************************************)
(* Properties of the text generate_gource_log writes.                      *)
(***************************************************************************)
\* A text without a quote and without a diacritic.
Plain(text) == \A i \in DOMAIN text : text[i] \notin Quotes \cup {"e-acute"}

\* The first line of a text.
FirstLine(text) ==
    LET ends == {k \in 1..Len(text) : text[k] = "\n"}
    IN IF ends = {} THEN text
       ELSE SubSeq(text, 1, (CHOOSE k \in ends : \A j \in ends : k <= j) - 1)

\* C29: for a line 'timestamp|user|T|path' of gource without a quote and
\* without a diacritic, the line written is the line of gource with '/'
\* and the name of the repository inserted after the 'T|' and nothing
\* else changed, also when the path holds '|' characters.
C29_RoundTrip ==
    (Generating /\ ret.tag = "Ok" /\ Plain(call.user) /\ Plain(call.path)
        /\ call.name = <<"r">>) =>
        FirstLine(stage.file.v) =
            <<"1", "|">> \o call.user \o <<"|", "M", "|">>
                \o <<"/">> \o call.name \o call.path

\* C30: the log file generate_gource_log has written holds no quote
\* character, whatever gource wrote and whatever the name of the
\* repository.
C30_NoQuotes ==
    (Generating /\ stage.at = "returned" /\ stage.file.tag = "Some") =>
        \A i \in DOMAIN stage.file.v : stage.file.v[i] \notin Quotes

\* C30 happens: the path, a later line and the name of the repository
\* held quotes, and the log was written.
C30_Witness ==
    /\ Generating /\ ret.tag = "Ok"
    /\ ~Plain(call.path) /\ ~Plain(call.name)
    /\ Len(call.stdout) > Len(call.path) + Len(call.user) + 6
    /\ stage.file = Some(gource_log(call.stdout, call.name))

(***************************************************************************)
(* Properties of the paths of the repositories.                            *)
(***************************************************************************)
\* The paths of two repositories with different full names were computed.
PathsOfTwo ==
    /\ call.op = "OutputDir::paths" /\ ret.tag = "Some"
    /\ Repo_full_name(call.self) /= Repo_full_name(call.other)

LoginKeepsSlash(login) ==
    /\ login[Len(login)] /= "_"
    /\ \A i \in 1..(Len(login) - 1) : ~(login[i] = "_" /\ login[i + 1] = "_")

ExtractorFailed ==
    Generating /\ stage.at = "returned" /\ call.gource /= Some(0)

\* C32: when gource cannot be run or exits with a nonzero status,
\* generate_gource_log returns an error; the log file of the repository
\* was not opened and is as it was, absent or left by an earlier run, and
\* gource was run once.
C32_LogUntouched ==
    ExtractorFailed =>
        /\ ret.tag = "Err"
        /\ ret.msg \in {"failed to execute gource command",
                         "Failed to generate gource log for repo"}
        /\ stage.opens = 0
        /\ stage.file = call.old
        /\ stage.runs = 1

\* C32 happens: gource wrote a line and exited with status 1, and the
\* log an earlier run left is still there.
C32_Witness ==
    /\ ExtractorFailed /\ call.gource = Some(1)
    /\ call.path /= <<>>
    /\ call.old = Some(<<"o">>)
    /\ stage.file = Some(<<"o">>)
    /\ ret = Failed("Failed to generate gource log for repo", Some(call.name))

====
